---------------------------- MODULE Spec2Model ----------------------------
(***************************************************************************)
(* A model of the logfmt decoder of src/decode.go (the NextRecord /        *)
(* ScanKey / ScanValue revision, lines 1-268): a line-oriented lexer       *)
(* written as state functions that return the next state function, driven  *)
(* by scanTok.  Bytes are their ASCII codes, a line is a sequence of       *)
(* bytes, Go's 0-based dec.pos indexes line[pos + 1] here.                 *)
(***************************************************************************)
EXTENDS Integers, Sequences, FiniteSets, TLC

(* ------------------------------ bounds -------------------------------- *)

\* Longest line of the one-line streams whose line is any byte sequence.
MaxLineLen == 5
\* Most lines, and longest line, of the many-line streams of any short lines.
MaxLines == 2
MaxShortLen == 2
\* Most bytes after the opening quote in the one-line streams of quoted values.
MaxQuotedLen == 3
\* Most calls made on one encoder.
MaxEncCalls == 3

(* ------------------------------- bytes -------------------------------- *)

LF == 10
CR == 13
SP == 32
QUOTE == 34
EQ == 61
BSL == 92

\* The bytes free-mode lines are drawn from: space, '"', '=', '\', 'a'.
Alphabet == {SP, QUOTE, EQ, BSL, 97}

RECURSIVE SeqsUpTo(_, _)
SeqsUpTo(S, n) ==
    IF n = 0 THEN {<<>>}
    ELSE LET shorter == SeqsUpTo(S, n - 1)
         IN  shorter \cup {Append(s, c) : s \in {t \in shorter : Len(t) = n - 1}, c \in S}

LongLines == SeqsUpTo(Alphabet, MaxLineLen)
ShortLines == SeqsUpTo(Alphabet, MaxShortLen)
\* a=" followed by any bytes: the lines that open a quoted value.
QuotedLines == {<<97, EQ, QUOTE>> \o t : t \in SeqsUpTo(Alphabet, MaxQuotedLen)}

(* --------------------------- token values ----------------------------- *)

\* A Go []byte result: the nil slice, or a slice with the bytes b.
Nil == [isNil |-> TRUE, b |-> <<>>]
Bytes(s) == [isNil |-> FALSE, b |-> s]

(* ------------------------------ errors -------------------------------- *)

NoErr == [kind |-> "nil", Msg |-> "", Line |-> 0, Pos |-> 0]
EndOfRecord == [kind |-> "EndOfRecord", Msg |-> "end of record", Line |-> 0, Pos |-> 0]
ErrUnterminatedValue ==
    [kind |-> "ErrUnterminatedValue", Msg |-> "unterminated quoted value", Line |-> 0, Pos |-> 0]
ErrInvalidQuotedValue ==
    [kind |-> "ErrInvalidQuotedValue", Msg |-> "invalid quoted value", Line |-> 0, Pos |-> 0]
\* The stream's own error (bufio.Scanner.Err() after Scan returned false).
IOError == [kind |-> "io", Msg |-> "stream error", Line |-> 0, Pos |-> 0]

\* fmt.Sprintf("unexpected %q", c) for the two bytes it is called with.
UnexpectedMsg(c) ==
    CASE c = EQ -> "unexpected '='"
      [] c = QUOTE -> "unexpected '\"'"
      [] OTHER -> "unexpected byte"

SyntaxError(msg, line, pos) == [kind |-> "SyntaxError", Msg |-> msg, Line |-> line, Pos |-> pos]

\* A variant of unexpectedByte that reports the 0-based position.
unexpectedByteZeroBased(d, c) == SyntaxError(UnexpectedMsg(c), d.lineNum, d.pos)

unexpectedByte(d, c) == SyntaxError(UnexpectedMsg(c), d.lineNum, d.pos + 1)

(* ------------------------- decoder primitives ------------------------- *)

InRange(d) == d.pos >= 0 /\ d.pos < Len(d.line)

\* dec.line[dec.pos]; the callers below test InRange first (Go panics otherwise).
peek(d) == d.line[d.pos + 1]

\* dec.line[dec.start:dec.end], nil when the span is empty.
token(d) ==
    IF d.start = d.end THEN Nil
    ELSE Bytes(SubSeq(d.line, d.start + 1, d.end))

\* skip: dec.pos++ ; its result is skipOK of the decoder it returns.
skip(d) == [d EXCEPT !.pos = @ + 1]
skipOK(d) == d.pos < Len(d.line)

\* What a state function returns: the decoder it left, the next state
\* function, the token type and the error; panic marks an index out of range.
R(d, next, tt, err) == [d |-> d, next |-> next, tt |-> tt, err |-> err, panic |-> FALSE]
Panic(d) == [d |-> d, next |-> "nil", tt |-> "tokNone", err |-> NoErr, panic |-> TRUE]

(* -------------------------- state functions --------------------------- *)

\* garbage: skip bytes <= ' ' until a key starts; '=' and '"' are faults.
RECURSIVE garbage(_)
garbage(d) ==
    IF ~InRange(d) THEN Panic(d)
    ELSE LET c == peek(d) IN
         IF c = EQ \/ c = QUOTE THEN R(d, "garbage", "tokNone", unexpectedByte(d, c))
         ELSE IF c > SP THEN R(d, "key", "tokNone", NoErr)
         ELSE IF ~skipOK(skip(d)) THEN R(skip(d), "eol", "tokNone", NoErr)
         ELSE garbage(skip(d))

\* A variant of eol that ends the scan without setting EndOfRecord.
eolQuiet(d) == R(d, "nil", "tokEOL", NoErr)

eol(d) == R(d, "eol", "tokEOL", EndOfRecord)

\* A variant of keyLoop that takes '"' as a byte of the key.
RECURSIVE keyLoopAllowsQuote(_)
keyLoopAllowsQuote(d) ==
    IF ~InRange(d) THEN Panic(d)
    ELSE LET c == peek(d) IN
         IF c = EQ THEN R([d EXCEPT !.end = d.pos], "equal", "tokKey", NoErr)
         ELSE IF c <= SP THEN R([d EXCEPT !.end = d.pos], "nvalue", "tokKey", NoErr)
         ELSE IF ~skipOK(skip(d))
              THEN R([skip(d) EXCEPT !.end = d.pos + 1], "eol", "tokKey", NoErr)
         ELSE keyLoopAllowsQuote(skip(d))

RECURSIVE keyLoop(_)
keyLoop(d) ==
    IF ~InRange(d) THEN Panic(d)
    ELSE LET c == peek(d) IN
         IF c = EQ THEN R([d EXCEPT !.end = d.pos], "equal", "tokKey", NoErr)
         ELSE IF c = QUOTE THEN R(d, "nil", "tokNone", unexpectedByte(d, c))
         ELSE IF c <= SP THEN R([d EXCEPT !.end = d.pos], "nvalue", "tokKey", NoErr)
         ELSE IF ~skipOK(skip(d))
              THEN R([skip(d) EXCEPT !.end = d.pos + 1], "eol", "tokKey", NoErr)
         ELSE keyLoop(skip(d))

key(d) == keyLoop([d EXCEPT !.start = d.pos])

equal(d) ==
    LET d1 == [skip(d) EXCEPT !.start = d.pos, !.end = d.pos + 1] IN
    IF ~skipOK(d1) THEN R(d1, "eol", "tokEqual", NoErr)
    ELSE R(d1, "value", "tokEqual", NoErr)

\* value: skips bytes <= ' ' after the '=' until a value starts or the line ends.
RECURSIVE value(_)
value(d) ==
    IF ~InRange(d) THEN Panic(d)
    ELSE LET c == peek(d) IN
         IF c = QUOTE THEN R(d, "qvalue", "tokNone", NoErr)
         ELSE IF c > SP THEN R(d, "ivalue", "tokNone", NoErr)
         ELSE IF ~skipOK(skip(d))
              THEN R([skip(d) EXCEPT !.start = d.pos + 1, !.end = d.pos + 1],
                     "eol", "tokValue", NoErr)
         ELSE value(skip(d))

\* A variant of nvalue that leaves the key's span in start and end.
nvalueKeepsSpan(d) == R(d, "garbage", "tokValue", NoErr)

nvalue(d) == R([d EXCEPT !.start = d.pos, !.end = d.pos], "garbage", "tokValue", NoErr)

\* A variant of ivalueLoop that takes '=' as a byte of the value.
RECURSIVE ivalueLoopAllowsEq(_)
ivalueLoopAllowsEq(d) ==
    IF ~InRange(d) THEN Panic(d)
    ELSE LET c == peek(d) IN
         IF c = QUOTE THEN R(d, "nil", "tokNone", unexpectedByte(d, c))
         ELSE IF c <= SP THEN R([d EXCEPT !.end = d.pos], "garbage", "tokValue", NoErr)
         ELSE IF ~skipOK(skip(d))
              THEN R([skip(d) EXCEPT !.end = d.pos + 1], "eol", "tokValue", NoErr)
         ELSE ivalueLoopAllowsEq(skip(d))

RECURSIVE ivalueLoop(_)
ivalueLoop(d) ==
    IF ~InRange(d) THEN Panic(d)
    ELSE LET c == peek(d) IN
         IF c = EQ \/ c = QUOTE THEN R(d, "nil", "tokNone", unexpectedByte(d, c))
         ELSE IF c <= SP THEN R([d EXCEPT !.end = d.pos], "garbage", "tokValue", NoErr)
         ELSE IF ~skipOK(skip(d))
              THEN R([skip(d) EXCEPT !.end = d.pos + 1], "eol", "tokValue", NoErr)
         ELSE ivalueLoop(skip(d))

ivalue(d) == ivalueLoop([d EXCEPT !.start = d.pos])

RECURSIVE qvalueLoop(_)
qvalueLoop(d) ==
    LET d1 == skip(d) IN
    IF ~skipOK(d1) THEN R(d1, "eol", "tokNone", ErrUnterminatedValue)
    ELSE LET c == peek(d1) IN
         IF c = BSL THEN R(d1, "qvalueEsc", "tokNone", NoErr)
         ELSE IF c = QUOTE
              THEN LET d2 == [skip(d1) EXCEPT !.start = d1.start + 1, !.end = d1.pos] IN
                   IF ~skipOK(d2) THEN R(d2, "eol", "tokValue", NoErr)
                   ELSE R(d2, "garbage", "tokValue", NoErr)
         ELSE qvalueLoop(d1)

qvalue(d) == qvalueLoop([d EXCEPT !.start = d.pos])

\* A variant of qvalueEscLoop that wants whitespace or the end of the line
\* after the closing quote.
RECURSIVE qvalueEscLoopNeedsSpace(_, _)
qvalueEscLoopNeedsSpace(d, esc) ==
    IF ~InRange(d) THEN Panic(d)
    ELSE LET c == peek(d) IN
         IF (~esc) /\ c # BSL /\ c = QUOTE
         THEN LET d1 == [skip(d) EXCEPT !.end = d.pos + 1] IN
              IF ~skipOK(d1) THEN R(d1, "eol", "tokQuotedValue", NoErr)
              ELSE IF peek(d1) > SP THEN R(d1, "nil", "tokNone", unexpectedByte(d1, peek(d1)))
              ELSE R(d1, "garbage", "tokQuotedValue", NoErr)
         ELSE LET esc1 == IF esc THEN FALSE ELSE c = BSL IN
              IF ~skipOK(skip(d)) THEN R(skip(d), "eol", "tokNone", ErrUnterminatedValue)
              ELSE qvalueEscLoopNeedsSpace(skip(d), esc1)

\* A variant of qvalueEscLoop that does not track the escape state: every
\* '"' closes the value.
RECURSIVE qvalueEscLoopNoEsc(_, _)
qvalueEscLoopNoEsc(d, esc) ==
    IF ~InRange(d) THEN Panic(d)
    ELSE LET c == peek(d) IN
         IF c = QUOTE
         THEN LET d1 == [skip(d) EXCEPT !.end = d.pos + 1] IN
              IF ~skipOK(d1) THEN R(d1, "eol", "tokQuotedValue", NoErr)
              ELSE R(d1, "garbage", "tokQuotedValue", NoErr)
         ELSE IF ~skipOK(skip(d)) THEN R(skip(d), "eol", "tokNone", ErrUnterminatedValue)
         ELSE qvalueEscLoopNoEsc(skip(d), FALSE)

RECURSIVE qvalueEscLoop(_, _)
qvalueEscLoop(d, esc) ==
    IF ~InRange(d) THEN Panic(d)
    ELSE LET c == peek(d) IN
         IF (~esc) /\ c # BSL /\ c = QUOTE
         THEN LET d1 == [skip(d) EXCEPT !.end = d.pos + 1] IN
              IF ~skipOK(d1) THEN R(d1, "eol", "tokQuotedValue", NoErr)
              ELSE R(d1, "garbage", "tokQuotedValue", NoErr)
         ELSE LET esc1 == IF esc THEN FALSE ELSE c = BSL IN
              IF ~skipOK(skip(d)) THEN R(skip(d), "eol", "tokNone", ErrUnterminatedValue)
              ELSE qvalueEscLoop(skip(d), esc1)

qvalueEsc(d) == qvalueEscLoop(d, FALSE)

\* dec.state(dec): the call through the state function value.
CallState(d) ==
    CASE d.state = "garbage" -> garbage(d)
      [] d.state = "eol" -> eol(d)
      [] d.state = "key" -> key(d)
      [] d.state = "equal" -> equal(d)
      [] d.state = "value" -> value(d)
      [] d.state = "nvalue" -> nvalue(d)
      [] d.state = "ivalue" -> ivalue(d)
      [] d.state = "qvalue" -> qvalue(d)
      [] d.state = "qvalueEsc" -> qvalueEsc(d)

(* --------------------------- unquoteBytes ----------------------------- *)

\* The value of a hexadecimal digit, -1 for any other byte.
HexVal(c) ==
    IF c >= 48 /\ c <= 57 THEN c - 48
    ELSE IF c >= 97 /\ c <= 102 THEN c - 87
    ELSE IF c >= 65 /\ c <= 70 THEN c - 55
    ELSE -1

\* The code point of the four hex digits at s[i .. i+3], -1 if malformed.
Hex4(s, i) ==
    IF i + 3 > Len(s) THEN -1
    ELSE IF \E k \in 0..3 : HexVal(s[i + k]) = -1 THEN -1
    ELSE HexVal(s[i]) * 4096 + HexVal(s[i + 1]) * 256 + HexVal(s[i + 2]) * 16 + HexVal(s[i + 3])

UTF8(cp) ==
    IF cp < 128 THEN <<cp>>
    ELSE IF cp < 2048 THEN <<192 + (cp \div 64), 128 + (cp % 64)>>
    ELSE IF cp < 65536
         THEN <<224 + (cp \div 4096), 128 + ((cp \div 64) % 64), 128 + (cp % 64)>>
    ELSE <<240 + (cp \div 262144), 128 + ((cp \div 4096) % 64),
           128 + ((cp \div 64) % 64), 128 + (cp % 64)>>

\* The byte a one-letter escape stands for, -1 for an unknown escape letter.
SimpleEscape(e) ==
    CASE e = QUOTE -> QUOTE
      [] e = BSL -> BSL
      [] e = 47 -> 47
      [] e = 98 -> 8
      [] e = 102 -> 12
      [] e = 110 -> LF
      [] e = 114 -> CR
      [] e = 116 -> 9
      [] OTHER -> -1

IsHighSurrogate(cp) == cp >= 55296 /\ cp <= 56319
IsLowSurrogate(cp) == cp >= 56320 /\ cp <= 57343

\* Interprets the backslash escapes of the content s from index i on.
RECURSIVE unescapeFrom(_, _, _)
unescapeFrom(s, i, acc) ==
    IF i > Len(s) THEN [ok |-> TRUE, b |-> acc]
    ELSE IF s[i] # BSL THEN unescapeFrom(s, i + 1, Append(acc, s[i]))
    ELSE IF i = Len(s) THEN [ok |-> FALSE, b |-> <<>>]
    ELSE IF s[i + 1] # 117
         THEN IF SimpleEscape(s[i + 1]) = -1 THEN [ok |-> FALSE, b |-> <<>>]
              ELSE unescapeFrom(s, i + 2, Append(acc, SimpleEscape(s[i + 1])))
    ELSE LET cp == Hex4(s, i + 2) IN
         IF cp = -1 \/ IsLowSurrogate(cp) THEN [ok |-> FALSE, b |-> <<>>]
         ELSE IF ~IsHighSurrogate(cp) THEN unescapeFrom(s, i + 6, acc \o UTF8(cp))
         ELSE IF i + 7 > Len(s) \/ s[i + 6] # BSL \/ s[i + 7] # 117
              THEN [ok |-> FALSE, b |-> <<>>]
         ELSE LET lo == Hex4(s, i + 8) IN
              IF lo = -1 \/ ~IsLowSurrogate(lo) THEN [ok |-> FALSE, b |-> <<>>]
              ELSE unescapeFrom(s, i + 12,
                       acc \o UTF8(65536 + (cp - 55296) * 1024 + (lo - 56320)))

\* unquoteBytes(s): s is the quoted span with its two quote marks.
unquoteBytes(t) ==
    IF t.isNil \/ Len(t.b) < 2 \/ t.b[1] # QUOTE \/ t.b[Len(t.b)] # QUOTE
    THEN [ok |-> FALSE, b |-> <<>>]
    ELSE unescapeFrom(SubSeq(t.b, 2, Len(t.b) - 1), 1, <<>>)

(* ------------------------------ scanTok ------------------------------- *)

tokKey == {"tokKey"}
tokValueOrQuoted == {"tokValue", "tokQuotedValue"}

\* The loop of scanTok: run state functions until a wanted token, an error
\* or a nil state.  tt starts as the zero tokType; from is the state function
\* that produced tt.
RECURSIVE scanLoop(_, _, _, _)
scanLoop(d, toks, tt, from) ==
    IF d.err = NoErr /\ d.state # "nil" /\ tt \notin toks
    THEN LET r == CallState(d) IN
         IF r.panic THEN [d |-> d, tt |-> tt, from |-> d.state, panic |-> TRUE]
         ELSE scanLoop([r.d EXCEPT !.state = r.next, !.err = r.err], toks, r.tt, d.state)
    ELSE [d |-> d, tt |-> tt, from |-> from, panic |-> FALSE]

\* A variant of scanTok without the test that the loop ended on a wanted
\* token: it returns the span start..end whatever the token type (slicing
\* the line outside its bounds is a run-time panic).
scanTokAnyToken(d, toks) ==
    LET l == scanLoop(d, toks, "zero", "none") IN
    IF l.panic \/ l.d.start > l.d.end \/ l.d.end > Len(l.d.line)
    THEN [d |-> l.d, val |-> Nil, tt |-> l.tt, from |-> l.from, panic |-> TRUE]
    ELSE IF l.tt # "tokQuotedValue"
         THEN [d |-> l.d, val |-> token(l.d), tt |-> l.tt, from |-> l.from, panic |-> FALSE]
    ELSE LET u == unquoteBytes(token(l.d)) IN
         IF ~u.ok
         THEN [d |-> [l.d EXCEPT !.err = ErrInvalidQuotedValue], val |-> Nil,
               tt |-> l.tt, from |-> l.from, panic |-> FALSE]
         ELSE [d |-> l.d, val |-> Bytes(u.b), tt |-> l.tt, from |-> l.from, panic |-> FALSE]

\* A variant of scanTok that returns an empty slice, not nil, when the loop
\* did not end on a wanted token.
scanTokEmptyNotNil(d, toks) ==
    LET l == scanLoop(d, toks, "zero", "none") IN
    IF l.panic THEN [d |-> l.d, val |-> Nil, tt |-> l.tt, from |-> l.from, panic |-> TRUE]
    ELSE IF l.tt \notin toks
         THEN [d |-> l.d, val |-> Bytes(<<>>), tt |-> l.tt, from |-> l.from, panic |-> FALSE]
    ELSE IF l.tt # "tokQuotedValue"
         THEN [d |-> l.d, val |-> token(l.d), tt |-> l.tt, from |-> l.from, panic |-> FALSE]
    ELSE LET u == unquoteBytes(token(l.d)) IN
         IF ~u.ok
         THEN [d |-> [l.d EXCEPT !.err = ErrInvalidQuotedValue], val |-> Nil,
               tt |-> l.tt, from |-> l.from, panic |-> FALSE]
         ELSE [d |-> l.d, val |-> Bytes(u.b), tt |-> l.tt, from |-> l.from, panic |-> FALSE]

\* scanTok: the decoder it leaves and the []byte it returns.
scanTok(d, toks) ==
    LET l == scanLoop(d, toks, "zero", "none") IN
    IF l.panic THEN [d |-> l.d, val |-> Nil, tt |-> l.tt, from |-> l.from, panic |-> TRUE]
    ELSE IF l.tt \notin toks
         THEN [d |-> l.d, val |-> Nil, tt |-> l.tt, from |-> l.from, panic |-> FALSE]
    ELSE IF l.tt # "tokQuotedValue"
         THEN [d |-> l.d, val |-> token(l.d), tt |-> l.tt, from |-> l.from, panic |-> FALSE]
    ELSE LET u == unquoteBytes(token(l.d)) IN
         IF ~u.ok
         THEN [d |-> [l.d EXCEPT !.err = ErrInvalidQuotedValue], val |-> Nil,
               tt |-> l.tt, from |-> l.from, panic |-> FALSE]
         ELSE [d |-> l.d, val |-> Bytes(u.b), tt |-> l.tt, from |-> l.from, panic |-> FALSE]

(* --------------------------- input streams ---------------------------- *)

\* a=1 b="bar" x=2h3s r="esc\t" d e=sf
TextScan ==
    <<97, 61, 49, 32, 98, 61, 34, 98, 97, 114, 34, 32, 120, 61, 50, 104, 51, 115, 32,
      114, 61, 34, 101, 115, 99, 92, 116, 34, 32, 100, 32, 101, 61, 115, 102>>
\* y= d y=g
TextEqSpace == <<121, 61, 32, 100, 32, 121, 61, 103>>
\* a=1 LF =bar
TextEqAtStart == <<97, 61, 49, LF, 61, 98, 97, 114>>
\* a=1 LF "k"=bar
TextQuoteAtStart == <<97, 61, 49, LF, 34, 107, 34, 61, 98, 97, 114>>
\* LF SP SP =a   (a blank line, then a fault at column 3 of line 2)
TextBlankThenEq == <<LF, 32, 32, 61, 97>>
\* a=1 LF k"ey=bar
TextQuoteInKey == <<97, 61, 49, LF, 107, 34, 101, 121, 61, 98, 97, 114>>
\* a=1 LF k=b"ar
TextQuoteInValue == <<97, 61, 49, LF, 107, 61, 98, 34, 97, 114>>
\* a=1 LF k=b=ar
TextEqInValue == <<97, 61, 49, LF, 107, 61, 98, 61, 97, 114>>
\* a="1
TextUnterminated == <<97, 61, 34, 49>>
\* a="\t1
TextUnterminatedEsc == <<97, 61, 34, 92, 116, 49>>
\* a="\u1"
TextBadEscape == <<97, 61, 34, 92, 117, 49, 34>>
\* y=f LF y=g   (the last line has no newline)
TextTwoLines == <<121, 61, 102, LF, 121, 61, 103>>
\* y=f SP SP LF 0x1e SP y=g
TextCtrl == <<121, 61, 102, 32, 32, LF, 30, 32, 121, 61, 103>>
\* LF LF
TextBlankLines == <<LF, LF>>
\* a=1 LF b=2 LF
TextTerminated == <<97, 61, 49, LF, 98, 61, 50, LF>>

\* =a LF b=2   (a fault on the first line, a record after it)
TextFaultThenMore == <<61, 97, LF, 98, 61, 50>>

\* y="f\n"y=g   (no space after the closing quote)
TextQuoteNoSpace == <<121, 61, 34, 102, 92, 110, 34, 121, 61, 103>>
\* a="1\   (the line ends right after a backslash)
TextUnterminatedBackslash == <<97, 61, 34, 49, 92>>

Fixtures ==
    <<TextScan, TextEqSpace, TextEqAtStart, TextQuoteAtStart, TextBlankThenEq,
      TextQuoteInKey, TextQuoteInValue, TextEqInValue, TextUnterminated,
      TextUnterminatedEsc, TextBadEscape, TextTwoLines, TextCtrl, TextBlankLines,
      TextTerminated, <<>>, TextFaultThenMore, TextQuoteNoSpace,
      TextUnterminatedBackslash>>

\* The index of the first LF of data, 0 if there is none.
FirstLF(data) ==
    IF \E i \in 1..Len(data) : data[i] = LF
    THEN CHOOSE i \in 1..Len(data) : data[i] = LF /\ \A j \in 1..(i - 1) : data[j] # LF
    ELSE 0

dropCR(l) == IF Len(l) > 0 /\ l[Len(l)] = CR THEN SubSeq(l, 1, Len(l) - 1) ELSE l

\* bufio.Scanner.Scan with the default line splitter: the outcomes of one call.
\* fix <= 0 is a stream whose lines are chosen as they are read (at most left
\* more: one line of QuotedLines for fix = -2, one line of LongLines for
\* fix = -1, lines of ShortLines for fix = 0);
\* fix > 0 reads the rest of Fixtures[fix].  A read failure is final.
Scan(s) ==
    IF s.status # "open"
    THEN {[ok |-> FALSE, line |-> <<>>, sc |-> s]}
    ELSE IF s.fix <= 0
    THEN {[ok |-> TRUE, line |-> l,
           sc |-> [s EXCEPT !.left = @ - 1, !.delivered = @ + 1]] :
              l \in IF s.left = 0 THEN {}
                    ELSE IF s.fix = 0 THEN ShortLines
                    ELSE IF s.fix = -1 THEN LongLines
                    ELSE QuotedLines}
         \cup {[ok |-> FALSE, line |-> <<>>, sc |-> [s EXCEPT !.status = "eof"]],
               [ok |-> FALSE, line |-> <<>>, sc |-> [s EXCEPT !.status = "failed"]]}
    ELSE IF s.data = <<>>
    THEN {[ok |-> FALSE, line |-> <<>>, sc |-> [s EXCEPT !.status = "eof"]]}
    ELSE LET i == FirstLF(s.data) IN
         IF i = 0
         THEN {[ok |-> TRUE, line |-> dropCR(s.data),
                sc |-> [s EXCEPT !.data = <<>>, !.delivered = @ + 1]]}
         ELSE {[ok |-> TRUE, line |-> dropCR(SubSeq(s.data, 1, i - 1)),
                sc |-> [s EXCEPT !.data = SubSeq(s.data, i + 1, Len(s.data)),
                                 !.delivered = @ + 1]]}

\* bufio.Scanner.Err(): nil at the end of the input, the stream's error otherwise.
ScanErr(s) == IF s.status = "failed" THEN IOError ELSE NoErr

(* ----------------------------- operations ----------------------------- *)

\* The part of NextRecord after its test of dec.err.
ReadRecord(d, s, emptyOk) ==
    {IF ~o.ok
     THEN [d |-> [d EXCEPT !.err = ScanErr(o.sc)], ok |-> FALSE, sc |-> o.sc]
     ELSE [d |-> [d EXCEPT !.err = NoErr,
                           !.lineNum = @ + 1,
                           !.line = o.line,
                           !.state = IF Len(o.line) > 0 THEN "garbage" ELSE "eol",
                           !.pos = 0],
           ok |-> (emptyOk \/ Len(o.line) > 0), sc |-> o.sc] : o \in Scan(s)}

\* A variant of NextRecord that clears any error, not only EndOfRecord.
NextRecordClearsAll(d, s) == ReadRecord(d, s, TRUE)

\* A variant of NextRecord that does not clear EndOfRecord.
NextRecordKeepsEOR(d, s) ==
    IF d.err # NoErr THEN {[d |-> d, ok |-> FALSE, sc |-> s]}
    ELSE ReadRecord(d, s, TRUE)

\* A variant of NextRecord that returns whether the line is non-empty.
NextRecordFalseOnEmpty(d, s) ==
    IF d.err # EndOfRecord /\ d.err # NoErr
    THEN {[d |-> d, ok |-> FALSE, sc |-> s]}
    ELSE ReadRecord(d, s, FALSE)

\* A variant of NextRecord that leaves the lexer in the state it was in when
\* the previous line was not read to its end.
NextRecordKeepsState(d, s) ==
    IF d.err # EndOfRecord /\ d.err # NoErr
    THEN {[d |-> d, ok |-> FALSE, sc |-> s]}
    ELSE {IF ~o.ok
          THEN [d |-> [d EXCEPT !.err = ScanErr(o.sc)], ok |-> FALSE, sc |-> o.sc]
          ELSE [d |-> [d EXCEPT !.err = NoErr,
                                !.lineNum = @ + 1,
                                !.line = o.line,
                                !.state = IF Len(o.line) = 0 THEN "eol"
                                          ELSE IF d.err = EndOfRecord \/ d.state = "nil"
                                          THEN "garbage" ELSE d.state,
                                !.pos = 0],
                ok |-> TRUE, sc |-> o.sc] : o \in Scan(s)}

\* NextRecord: the outcomes [d, ok, sc] of one call on decoder d and scanner s.
NextRecord(d, s) ==
    IF d.err # EndOfRecord /\ d.err # NoErr
    THEN {[d |-> d, ok |-> FALSE, sc |-> s]}
    ELSE {IF ~o.ok
          THEN [d |-> [d EXCEPT !.err = ScanErr(o.sc)], ok |-> FALSE, sc |-> o.sc]
          ELSE [d |-> [d EXCEPT !.err = NoErr,
                                !.lineNum = @ + 1,
                                !.line = o.line,
                                !.state = IF Len(o.line) > 0 THEN "garbage" ELSE "eol",
                                !.pos = 0],
                ok |-> TRUE, sc |-> o.sc] : o \in Scan(s)}

ScanKey(d) == scanTok(d, tokKey)

ScanValue(d) == scanTok(d, tokValueOrQuoted)

(* ------------------------------ encoder ------------------------------- *)

\* The encoder of src/logfmt.go.  A key or a value is an interface{}: here a
\* record of its dynamic type's kind, whether it is a nil pointer, what its
\* hooks do when called, and its texts.  kind is "nil" (the nil interface),
\* "string", "named" (a named basic type, printed by fmt.Sprint), "ptr" (a
\* pointer to a plain type), "composite" (array, chan, func, map, slice or
\* struct), "marshaler" (encoding.TextMarshaler), "stringer" (fmt.Stringer)
\* or "both"; hook is "ok", "err" (MarshalText returns an error) or "panic";
\* text is the string, the MarshalText bytes or the fmt.Sprint text, stext
\* what String() returns.

ErrNil == "nil"
ErrNilKey == "nil key"
ErrInvalidKey == "invalid key"
ErrUnsportedType == "unsupported type"
\* The error of a sink that rejects a write, and the error a hook returns.
ErrSink == "sink error"
ErrHook == "hook error"

space == <<SP>>
equals == <<EQ>>
newline == <<LF>>
nilbytes == <<110, 117, 108, 108>>

\* What fmt.Sprint prints for a non-nil pointer: an address, 0xc0 here.
AddressText == <<48, 120, 99, 48>>

\* EncodeKeyval writes at most four times: separator, key, '=', value.
MaxWrites == 4

\* io.Writer.Write on the sink w: buf is what the sink holds, n counts the
\* writes of the current call and the sink rejects write number failAt.
Write(w, b) ==
    IF w.n + 1 = w.failAt
    THEN [w |-> [w EXCEPT !.n = @ + 1], err |-> ErrSink, panic |-> FALSE]
    ELSE [w |-> [w EXCEPT !.n = @ + 1, !.buf = @ \o b], err |-> ErrNil, panic |-> FALSE]

Fail(w, err) == [w |-> w, err |-> err, panic |-> FALSE]
Raise(w) == [w |-> w, err |-> ErrNil, panic |-> TRUE]

invalidKeyRune(r) == r <= SP \/ r = EQ \/ r = QUOTE
needsQuotedValueRune(r) == r <= SP \/ r = EQ \/ r = QUOTE

\* A variant of safeString whose recover keeps every panic.
safeStringRecoversAll(x) ==
    IF x.hook = "panic" THEN [s |-> nilbytes, ok |-> FALSE, panic |-> FALSE]
    ELSE [s |-> x.stext, ok |-> TRUE, panic |-> FALSE]

\* safeString: String() through the recover that maps a panic on a nil
\* pointer to ("null", false); any other panic is raised again.
safeString(x) ==
    IF x.hook = "panic"
    THEN IF x.nilptr THEN [s |-> nilbytes, ok |-> FALSE, panic |-> FALSE]
         ELSE [s |-> <<>>, ok |-> FALSE, panic |-> TRUE]
    ELSE [s |-> x.stext, ok |-> TRUE, panic |-> FALSE]

\* safeMarshal: MarshalText() through the recover that maps a panic on a nil
\* pointer to (nil, nil).
safeMarshal(x) ==
    IF x.hook = "panic"
    THEN IF x.nilptr THEN [b |-> Nil, err |-> ErrNil, panic |-> FALSE]
         ELSE [b |-> Nil, err |-> ErrNil, panic |-> TRUE]
    ELSE IF x.hook = "err" THEN [b |-> Nil, err |-> ErrHook, panic |-> FALSE]
    ELSE [b |-> Bytes(x.text), err |-> ErrNil, panic |-> FALSE]

\* fmt.Sprint of a value of the default branch.
Sprint(x) == IF x.kind = "ptr" THEN AddressText ELSE x.text

\* A variant of writeStringKey that checks only for an empty key.
writeStringKeyAnyRune(w, keyArg) ==
    IF Len(keyArg) = 0 THEN Fail(w, ErrInvalidKey) ELSE Write(w, keyArg)

writeStringKey(w, keyArg) ==
    IF Len(keyArg) = 0 \/ \E i \in 1..Len(keyArg) : invalidKeyRune(keyArg[i])
    THEN Fail(w, ErrInvalidKey)
    ELSE Write(w, keyArg)

writeBytesKey(w, keyArg) ==
    IF Len(keyArg) = 0 \/ \E i \in 1..Len(keyArg) : invalidKeyRune(keyArg[i])
    THEN Fail(w, ErrInvalidKey)
    ELSE Write(w, keyArg)

\* A variant of writeKey whose hooks are called without the recover.
writeKeyUnsafe(w, keyArg) ==
    CASE keyArg.kind = "nil" -> Fail(w, ErrNilKey)
      [] keyArg.kind = "string" -> writeStringKey(w, keyArg.text)
      [] keyArg.kind \in {"marshaler", "both"} ->
            IF keyArg.hook = "panic" THEN Raise(w)
            ELSE IF keyArg.hook = "err" THEN Fail(w, ErrHook)
            ELSE writeBytesKey(w, keyArg.text)
      [] keyArg.kind = "stringer" ->
            IF keyArg.hook = "panic" THEN Raise(w) ELSE writeStringKey(w, keyArg.stext)
      [] OTHER ->
            IF keyArg.kind = "composite" THEN Fail(w, ErrUnsportedType)
            ELSE IF keyArg.kind = "ptr" /\ keyArg.nilptr THEN Fail(w, ErrNilKey)
            ELSE writeStringKey(w, Sprint(keyArg))

\* A variant of writeKey that tries the String hook before MarshalText.
writeKeyStringerFirst(w, keyArg) ==
    CASE keyArg.kind = "nil" -> Fail(w, ErrNilKey)
      [] keyArg.kind = "string" -> writeStringKey(w, keyArg.text)
      [] keyArg.kind \in {"stringer", "both"} ->
            LET s == safeString(keyArg) IN
            IF s.panic THEN Raise(w)
            ELSE IF ~s.ok THEN Fail(w, ErrNilKey)
            ELSE writeStringKey(w, s.s)
      [] keyArg.kind = "marshaler" ->
            LET m == safeMarshal(keyArg) IN
            IF m.panic THEN Raise(w)
            ELSE IF m.err # ErrNil THEN Fail(w, m.err)
            ELSE IF m.b.isNil THEN Fail(w, ErrNilKey)
            ELSE writeBytesKey(w, m.b.b)
      [] OTHER ->
            IF keyArg.kind = "composite" THEN Fail(w, ErrUnsportedType)
            ELSE IF keyArg.kind = "ptr" /\ keyArg.nilptr THEN Fail(w, ErrNilKey)
            ELSE writeStringKey(w, Sprint(keyArg))

writeKey(w, keyArg) ==
    CASE keyArg.kind = "nil" -> Fail(w, ErrNilKey)
      [] keyArg.kind = "string" -> writeStringKey(w, keyArg.text)
      [] keyArg.kind \in {"marshaler", "both"} ->
            LET m == safeMarshal(keyArg) IN
            IF m.panic THEN Raise(w)
            ELSE IF m.err # ErrNil THEN Fail(w, m.err)
            ELSE IF m.b.isNil THEN Fail(w, ErrNilKey)
            ELSE writeBytesKey(w, m.b.b)
      [] keyArg.kind = "stringer" ->
            LET s == safeString(keyArg) IN
            IF s.panic THEN Raise(w)
            ELSE IF ~s.ok THEN Fail(w, ErrNilKey)
            ELSE writeStringKey(w, s.s)
      [] OTHER ->
            IF keyArg.kind = "composite" THEN Fail(w, ErrUnsportedType)
            ELSE IF keyArg.kind = "ptr" /\ keyArg.nilptr THEN Fail(w, ErrNilKey)
            ELSE writeStringKey(w, Sprint(keyArg))

\* The lower-case hexadecimal digit of n < 16.
HexDigit(n) == IF n < 10 THEN 48 + n ELSE 87 + n

\* The escaped form of one byte inside a quoted value (ASCII bytes).
escapeByte(c) ==
    CASE c = QUOTE -> <<BSL, QUOTE>>
      [] c = BSL -> <<BSL, BSL>>
      [] c = LF -> <<BSL, 110>>
      [] c = CR -> <<BSL, 114>>
      [] c = 9 -> <<BSL, 116>>
      [] c < SP /\ c \notin {LF, CR, 9} ->
            <<BSL, 117, 48, 48, HexDigit(c \div 16), HexDigit(c % 16)>>
      [] OTHER -> <<c>>

\* s[i] is a continuation byte of an encoded character.
IsCont(s, i) == i <= Len(s) /\ s[i] >= 128 /\ s[i] <= 191
\* The length of the well-formed encoded character that starts at s[i], 0
\* when there is none (the bytes there are not valid text).
RuneLen(s, i) ==
    IF s[i] < 128 THEN 1
    ELSE IF s[i] >= 194 /\ s[i] <= 223 /\ IsCont(s, i + 1) THEN 2
    ELSE IF /\ s[i] >= 224 /\ s[i] <= 239 /\ IsCont(s, i + 1) /\ IsCont(s, i + 2)
            /\ (s[i] = 224 => s[i + 1] >= 160) /\ (s[i] = 237 => s[i + 1] <= 159)
         THEN 3
    ELSE IF /\ s[i] >= 240 /\ s[i] <= 244
            /\ IsCont(s, i + 1) /\ IsCont(s, i + 2) /\ IsCont(s, i + 3)
            /\ (s[i] = 240 => s[i + 1] >= 144) /\ (s[i] = 244 => s[i + 1] <= 143)
         THEN 4
    ELSE 0
\* The escape of a byte that starts no well-formed character: \ufffd.
escapeInvalid == <<BSL, 117, 102, 102, 102, 100>>

\* A variant of escapeFrom that escapes no control character.
RECURSIVE escapeFromKeepsControl(_, _, _)
escapeFromKeepsControl(s, i, acc) ==
    IF i > Len(s) THEN acc
    ELSE escapeFromKeepsControl(s, i + 1,
             acc \o (IF s[i] \in {QUOTE, BSL} THEN <<BSL, s[i]>> ELSE <<s[i]>>))

RECURSIVE escapeFrom(_, _, _)
escapeFrom(s, i, acc) ==
    IF i > Len(s) THEN acc
    ELSE IF RuneLen(s, i) = 0 THEN escapeFrom(s, i + 1, acc \o escapeInvalid)
    ELSE IF RuneLen(s, i) = 1 THEN escapeFrom(s, i + 1, acc \o escapeByte(s[i]))
    ELSE escapeFrom(s, i + RuneLen(s, i), acc \o SubSeq(s, i, i + RuneLen(s, i) - 1))

\* writeQuotedString / writeQuotedBytes: one write of the quoted, escaped text.
writeQuotedString(w, s) == Write(w, <<QUOTE>> \o escapeFrom(s, 1, <<>>) \o <<QUOTE>>)
writeQuotedBytes(w, s) == Write(w, <<QUOTE>> \o escapeFrom(s, 1, <<>>) \o <<QUOTE>>)

writeStringValue(w, valueArg, ok) ==
    IF ok /\ valueArg = <<110, 117, 108, 108>>
    THEN Write(w, <<QUOTE, 110, 117, 108, 108, QUOTE>>)
    ELSE IF \E i \in 1..Len(valueArg) : needsQuotedValueRune(valueArg[i])
         THEN writeQuotedString(w, valueArg)
    ELSE Write(w, valueArg)

writeBytesValue(w, valueArg) ==
    IF \E i \in 1..Len(valueArg) : needsQuotedValueRune(valueArg[i])
    THEN writeQuotedBytes(w, valueArg)
    ELSE Write(w, valueArg)

\* A variant of writeValue with no test of the kind in the default branch:
\* a composite is printed by fmt.Sprint like any other value.
writeValueSprintsAll(w, valueArg) ==
    CASE valueArg.kind = "nil" -> writeBytesValue(w, nilbytes)
      [] valueArg.kind = "string" -> writeStringValue(w, valueArg.text, TRUE)
      [] valueArg.kind \in {"marshaler", "both"} ->
            LET m == safeMarshal(valueArg) IN
            IF m.panic THEN Raise(w)
            ELSE IF m.err # ErrNil THEN Fail(w, m.err)
            ELSE writeBytesValue(w, IF m.b.isNil THEN nilbytes ELSE m.b.b)
      [] valueArg.kind = "stringer" ->
            LET s == safeString(valueArg) IN
            IF s.panic THEN Raise(w) ELSE writeStringValue(w, s.s, s.ok)
      [] OTHER ->
            IF valueArg.kind = "ptr" /\ valueArg.nilptr THEN writeBytesValue(w, nilbytes)
            ELSE writeStringValue(w, Sprint(valueArg), TRUE)

writeValue(w, valueArg) ==
    CASE valueArg.kind = "nil" -> writeBytesValue(w, nilbytes)
      [] valueArg.kind = "string" -> writeStringValue(w, valueArg.text, TRUE)
      [] valueArg.kind \in {"marshaler", "both"} ->
            LET m == safeMarshal(valueArg) IN
            IF m.panic THEN Raise(w)
            ELSE IF m.err # ErrNil THEN Fail(w, m.err)
            ELSE writeBytesValue(w, IF m.b.isNil THEN nilbytes ELSE m.b.b)
      [] valueArg.kind = "stringer" ->
            LET s == safeString(valueArg) IN
            IF s.panic THEN Raise(w) ELSE writeStringValue(w, s.s, s.ok)
      [] OTHER ->
            IF valueArg.kind = "composite" THEN Fail(w, ErrUnsportedType)
            ELSE IF valueArg.kind = "ptr" /\ valueArg.nilptr THEN writeBytesValue(w, nilbytes)
            ELSE writeStringValue(w, Sprint(valueArg), TRUE)

\* What a call of the encoder returns: the encoder and the sink it leaves,
\* its error, and whether it ended in a panic.
EncResult(e, r) == [enc |-> e, w |-> r.w, err |-> r.err, panic |-> r.panic]

\* The rest of EncodeKeyval after the separator: key, '=', value.
writePair(e, w, keyArg, valueArg) ==
    LET k == writeKey(w, keyArg) IN
    IF k.panic \/ k.err # ErrNil THEN EncResult(e, k)
    ELSE LET q == Write(k.w, equals) IN
         IF q.err # ErrNil THEN EncResult(e, q)
         ELSE EncResult(e, writeValue(q.w, valueArg))

\* A variant of EncodeKeyval that writes no separator.
EncodeKeyvalNoSep(e, w, keyArg, valueArg) == writePair([e EXCEPT !.needSep = TRUE], w, keyArg, valueArg)

\* A variant of EncodeKeyval that keeps the fault of a first call: with the
\* separator flag set on an empty sink it returns ErrNilKey.
EncodeKeyvalSticky(e, w, keyArg, valueArg) ==
    IF e.needSep /\ w.buf = <<>> THEN EncResult(e, Fail(w, ErrNilKey))
    ELSE IF e.needSep
    THEN LET s == Write(w, space) IN
         IF s.err # ErrNil THEN EncResult(e, s)
         ELSE writePair(e, s.w, keyArg, valueArg)
    ELSE writePair([e EXCEPT !.needSep = TRUE], w, keyArg, valueArg)

EncodeKeyval(e, w, keyArg, valueArg) ==
    IF e.needSep
    THEN LET s == Write(w, space) IN
         IF s.err # ErrNil THEN EncResult(e, s)
         ELSE writePair(e, s.w, keyArg, valueArg)
    ELSE writePair([e EXCEPT !.needSep = TRUE], w, keyArg, valueArg)

\* A variant of EndRecord that clears the separator flag even when the sink
\* rejects the newline.
EndRecordClearsOnFailure(e, w) == EncResult([e EXCEPT !.needSep = FALSE], Write(w, newline))

\* A variant of EndRecord that leaves the separator flag as it is.
EndRecordKeepsSep(e, w) == EncResult(e, Write(w, newline))

EndRecord(e, w) ==
    LET r == Write(w, newline) IN
    IF r.err = ErrNil THEN EncResult([e EXCEPT !.needSep = FALSE], r)
    ELSE EncResult(e, r)

Reset(e) == [e EXCEPT !.needSep = FALSE]

NewEncoder == [needSep |-> FALSE]

(* --------------------------- encoder inputs --------------------------- *)

Val(kind, nilptr, hook, text, stext) ==
    [kind |-> kind, nilptr |-> nilptr, hook |-> hook, text |-> text, stext |-> stext]

NilIface == Val("nil", FALSE, "ok", <<>>, <<>>)
Str(t) == Val("string", FALSE, "ok", t, t)
\* stringData(t), stringStringer(t), stringMarshaler(t) of the tests.
Named(t) == Val("named", FALSE, "ok", t, t)
Stringer(t) == Val("stringer", FALSE, "ok", t, t)
Marshaler(t) == Val("marshaler", FALSE, "ok", t, t)
\* (*int)(nil), and a pointer to a value whose text is t.
NilPtr == Val("ptr", TRUE, "ok", <<>>, <<>>)
Ptr(t) == Val("ptr", FALSE, "ok", t, t)
\* A nil pointer of a type whose hooks have value receivers: calling one panics.
NilPtrOf(kind) == Val(kind, TRUE, "panic", <<>>, <<>>)
\* A nil pointer of a type whose String has a pointer receiver and returns p.
NilPtrStringerOk == Val("stringer", TRUE, "ok", <<112>>, <<112>>)
\* [2]int{}, []int{}, map[int]int{}, struct{}{}, a chan, a func.
Composite == Val("composite", FALSE, "ok", <<>>, <<>>)
\* marshalerStringer{5, 9}: MarshalText gives 5.9, String gives 14.
MarshalerStringer == Val("both", FALSE, "ok", <<53, 46, 57>>, <<49, 52>>)
\* Hooks that fail on a holder that is not a nil pointer.
FailingHooks ==
    {Val("marshaler", FALSE, "err", <<>>, <<>>), Val("marshaler", FALSE, "panic", <<>>, <<>>),
     Val("stringer", FALSE, "panic", <<>>, <<>>)}

\* k \ LF 0x00 0x10 0x1f (empty) SP = "
KeyTexts ==
    {<<107>>, <<BSL>>, <<LF>>, <<0>>, <<16>>, <<31>>, <<>>, <<SP>>, <<EQ>>, <<QUOTE>>}
\* (empty) v SP = \ " \" LF 0x00, and nil, null, <nil>, "v v"
ValueTexts ==
    {<<>>, <<118>>, <<SP>>, <<EQ>>, <<BSL>>, <<QUOTE>>, <<BSL, QUOTE>>, <<LF>>, <<0>>,
     <<110, 105, 108>>, <<110, 117, 108, 108>>, <<60, 110, 105, 108, 62>>, <<118, SP, 118>>}

Special ==
    {NilIface, NilPtr, Ptr(<<49>>), NilPtrOf("marshaler"), NilPtrOf("stringer"),
     NilPtrOf("both"), NilPtrStringerOk, Composite, MarshalerStringer} \cup FailingHooks

RichKeys ==
    Special \cup UNION {{Str(t), Named(t), Stringer(t), Marshaler(t)} : t \in KeyTexts}
RichValues ==
    Special \cup UNION {{Str(t), Named(t), Stringer(t), Marshaler(t)} : t \in ValueTexts}

\* The pairs of the calls that may be followed by more calls:
\* (k1, v1), (k2, v2), (k, nil), (k, "v v"), (nil, nil), (" ", v), ([2]int{}, v).
SeqPairs ==
    {<<Str(<<107, 49>>), Str(<<118, 49>>)>>, <<Str(<<107, 50>>), Str(<<118, 50>>)>>,
     <<Str(<<107>>), NilIface>>, <<Str(<<107>>), Str(<<118, SP, 118>>)>>,
     <<NilIface, NilIface>>, <<Str(<<SP>>), Str(<<118>>)>>, <<Composite, Str(<<118>>)>>}
\* The pairs of the last call of a run: any key with the value v, the key k
\* with any value.
RichPairs ==
    {<<k, Str(<<118>>)>> : k \in RichKeys} \cup {<<Str(<<107>>), v>> : v \in RichValues}

(* --------------------------- MarshalKeyvals --------------------------- *)

\* A bytes.Buffer: a sink that accepts every write.
NewBuffer == [buf |-> <<>>, n |-> 0, failAt |-> 0]

\* A variant of the loop of MarshalKeyvals that returns what the buffer
\* holds when a pair fails.
RECURSIVE marshalFromKeepsBytes(_, _, _, _)
marshalFromKeepsBytes(keyvals, i, e, w) ==
    IF i > Len(keyvals) THEN [b |-> Bytes(w.buf), err |-> ErrNil, panic |-> FALSE]
    ELSE LET r == EncodeKeyval(e, w, keyvals[i], keyvals[i + 1]) IN
         IF r.panic THEN [b |-> Nil, err |-> ErrNil, panic |-> TRUE]
         ELSE IF r.err # ErrNil THEN [b |-> Bytes(r.w.buf), err |-> r.err, panic |-> FALSE]
         ELSE marshalFromKeepsBytes(keyvals, i + 2, r.enc, r.w)

\* The loop of MarshalKeyvals from keyvals[i] on.
RECURSIVE marshalFrom(_, _, _, _)
marshalFrom(keyvals, i, e, w) ==
    IF i > Len(keyvals) THEN [b |-> Bytes(w.buf), err |-> ErrNil, panic |-> FALSE]
    ELSE LET r == EncodeKeyval(e, w, keyvals[i], keyvals[i + 1]) IN
         IF r.panic THEN [b |-> Nil, err |-> ErrNil, panic |-> TRUE]
         ELSE IF r.err # ErrNil THEN [b |-> Nil, err |-> r.err, panic |-> FALSE]
         ELSE marshalFrom(keyvals, i + 2, r.enc, r.w)

\* MarshalKeyvals: the bytes (nil or not) and the error it returns.
MarshalKeyvals(keyvals) ==
    IF Len(keyvals) = 0 THEN [b |-> Nil, err |-> ErrNil, panic |-> FALSE]
    ELSE marshalFrom(IF Len(keyvals) % 2 = 1 THEN Append(keyvals, NilIface) ELSE keyvals,
                     1, NewEncoder, NewBuffer)

(* ------------------------- reading and writing ------------------------- *)

NewDecoder ==
    [line |-> <<>>, lineNum |-> 0, pos |-> 0, start |-> 0, end |-> 0,
     state |-> "nil", err |-> NoErr]
\* bytes.NewReader(data) behind the decoder's scanner.
NewReader(data) ==
    [fix |-> Len(Fixtures) + 1, data |-> data, left |-> 0, delivered |-> 0, status |-> "open"]

\* The inner loop of parse: for dec.Err() == nil { ScanKey; ScanValue; append },
\* in three steps: the test of dec.Err(), the body after ScanKey returned k,
\* the body after ScanValue returned v.
RECURSIVE parsePairs(_, _)
parseValue(k, v, acc) ==
    IF v.panic THEN [d |-> v.d, kvs |-> acc, panic |-> TRUE]
    ELSE parsePairs(v.d, IF k.val.isNil THEN acc
                         ELSE Append(acc, [k |-> k.val.b, v |-> v.val]))
parseKey(k, acc) ==
    IF k.panic THEN [d |-> k.d, kvs |-> acc, panic |-> TRUE]
    ELSE parseValue(k, ScanValue(k.d), acc)
parsePairs(d, acc) ==
    IF d.err # NoErr THEN [d |-> d, kvs |-> acc, panic |-> FALSE]
    ELSE parseKey(ScanKey(d), acc)

\* The outer loop of parse: for dec.NextRecord() { ... }, then dec.Err(), in
\* three steps: the call of NextRecord, the body after it returned r, the
\* end of the body after the inner loop left p.
RECURSIVE parseRecords(_, _, _)
parseRecord(r, p, got) ==
    IF p.panic THEN [recs |-> got, err |-> p.d.err, panic |-> TRUE]
    ELSE parseRecords(p.d, r.sc, IF p.d.err = EndOfRecord THEN Append(got, p.kvs) ELSE got)
parseNext(r, got) ==
    IF ~r.ok THEN [recs |-> got, err |-> r.d.err, panic |-> FALSE]
    ELSE parseRecord(r, parsePairs(r.d, <<>>), got)
parseRecords(d, s, got) == parseNext(CHOOSE x \in NextRecord(d, s) : TRUE, got)

\* parse(data): the records of data and the decoder's last error.
parse(data) == parseRecords(NewDecoder, NewReader(data), <<>>)

\* A []byte as the key or the value of EncodeKeyval: a slice, nil or not.
ByteSlice(t) == Val("composite", t.isNil, "ok", t.b, t.b)

\* The loop of write over the pairs of one record, from rec[i] on, and the
\* test of the error r of EncodeKeyval.
RECURSIVE writePairs(_, _, _, _)
writePairsNext(rec, i, r) ==
    IF r.panic \/ r.err # ErrNil THEN r ELSE writePairs(rec, i + 1, r.enc, r.w)
writePairs(rec, i, e, w) ==
    IF i > Len(rec) THEN [enc |-> e, w |-> w, err |-> ErrNil, panic |-> FALSE]
    ELSE writePairsNext(rec, i,
             EncodeKeyval(e, w, ByteSlice(Bytes(rec[i].k)), ByteSlice(rec[i].v)))

\* The loop of write over the records, from recs[i] on, the test of the
\* error r of the pairs and the test of the error n of EndRecord.
RECURSIVE writeRecords(_, _, _, _)
writeRecordsNext(recs, i, n) ==
    IF n.err # ErrNil THEN n ELSE writeRecords(recs, i + 1, n.enc, n.w)
writeRecordEnd(recs, i, r) ==
    IF r.panic \/ r.err # ErrNil THEN r
    ELSE writeRecordsNext(recs, i, EndRecord(r.enc, r.w))
writeRecords(recs, i, e, w) ==
    IF i > Len(recs) THEN [enc |-> e, w |-> w, err |-> ErrNil, panic |-> FALSE]
    ELSE writeRecordEnd(recs, i, writePairs(recs[i], 1, e, w))

\* write(recs, w) on a new buffer: the bytes written and the error.
write(recs) == writeRecords(recs, 1, NewEncoder, NewBuffer)

\* The texts given to the escape helper: sequences of " \ LF 0x00 a and of
\* the bytes 0x80, 0xc2, 0xb5 (0xc2 0xb5 is a well-formed character).
MaxEscapeLen == 3
EscapeBytes == {QUOTE, BSL, LF, 0, 97, 128, 194, 181}
EscapeTexts == SeqsUpTo(EscapeBytes, MaxEscapeLen)

\* The pairs encoded and read back: the key k with nil and with a text
\* (those of ValueTexts, a lone byte 0x80, 0x80 and a space, 0xc2 0xb5 and a
\* space), the key \ with v, the key x with a text-marshaler's v v.
MaxPairs == 2
RoundTripPairs ==
    {<<Str(<<107>>), NilIface>>, <<Str(<<BSL>>), Str(<<118>>)>>,
     <<Str(<<120>>), Marshaler(<<118, SP, 118>>)>>}
    \cup {<<Str(<<107>>), Str(t)>> :
             t \in ValueTexts \cup {<<128>>, <<128, SP>>, <<194, 181, SP>>}}
RECURSIVE PairLists(_)
PairLists(n) ==
    IF n = 0 THEN {<<>>}
    ELSE LET shorter == PairLists(n - 1)
         IN  shorter \cup {l \o <<p[1], p[2]>> :
                               l \in {t \in shorter : Len(t) = 2 * (n - 1)},
                               p \in RoundTripPairs}

\* a=1 b="bar" d x=sf SP SP SP   and   LF SP SP LF
TextReencode ==
    <<97, 61, 49, 32, 98, 61, 34, 98, 97, 114, 34, 32, 100, 32, 120, 61, 115, 102, 32, 32, 32>>
TextBlankSpaces == <<LF, 32, 32, LF>>
\* The texts read and written back.
DecodeTexts ==
    {Fixtures[i] : i \in 1..Len(Fixtures)} \cup {TextReencode, TextBlankSpaces} \cup ShortLines

\* The arguments of the MarshalKeyvals calls: k, v, "v v", nil, " ", [2]int{}.
MaxArgs == 4
MarshalArgs ==
    {Str(<<107>>), Str(<<118>>), Str(<<118, SP, 118>>), NilIface, Str(<<SP>>), Composite}

(* ------------------------------- state -------------------------------- *)

VARIABLES
    dec,       \* the Decoder's fields: line, lineNum, pos, start, end, state, err
    sc,        \* the bufio.Scanner and the input behind it
    ret,       \* the last call made and what it returned
    panicked,  \* a call ended in a run-time panic
    nrec,      \* how many NextRecord calls returned true
    loop,      \* where the caller is in the read loop of TestDecoder_scan
    curKey,    \* the read loop's k
    kvs,       \* the read loop's kvs for the current record
    clean      \* every call so far was a call of that read loop

VARIABLES
    enc,       \* the Encoder's needSep
    out,       \* the bytes the sink holds
    eret,      \* the last encoder call, its arguments and its error
    epanicked, \* an encoder call ended in a panic
    ncalls,    \* how many encoder calls were made
    prevOut,   \* the bytes the sink held before the last encoder call
    npairs,    \* the pairs written by successful calls since the record began
    wantOut,      \* the records the successful calls so far amount to
    allOk,     \* every encoder call so far returned nil
    prevErr    \* the error of the encoder call before the last

VARIABLES
    fin,       \* the function applied to whole inputs, and its input
    fres       \* what it returned

decVars == <<dec, sc, ret, panicked, nrec, loop, curKey, kvs, clean>>
encVars == <<enc, out, eret, epanicked, ncalls, prevOut, npairs, wantOut, allOk, prevErr>>
fnVars == <<fin, fres>>
vars == <<dec, sc, ret, panicked, nrec, loop, curKey, kvs, clean,
          enc, out, eret, epanicked, ncalls, prevOut, npairs, wantOut, allOk, prevErr,
          fin, fres>>

EncReturned(op, keyArg, valueArg, failAt, err) ==
    [op |-> op, key |-> keyArg, value |-> valueArg, failAt |-> failAt, err |-> err]

\* A new encoder on an empty sink, no call made.
EncIdle ==
    /\ enc = NewEncoder
    /\ out = <<>>
    /\ eret = EncReturned("none", NilIface, NilIface, 0, ErrNil)
    /\ epanicked = FALSE
    /\ ncalls = 0
    /\ prevOut = <<>>
    /\ npairs = 0
    /\ wantOut = <<>>
    /\ allOk = TRUE
    /\ prevErr = ErrNil

\* An input of a function fn: a list of arguments or a text.
FnInput(fn, args, text) == [fn |-> fn, args |-> args, text |-> text]
\* What a function returned: bytes and an encoder error, or records and a
\* decoder error, and whether it ended in a panic.
FnResult(b, err, recs, derr, panic) ==
    [done |-> TRUE, b |-> b, err |-> err, recs |-> recs, derr |-> derr, panic |-> panic]
NoResult == [done |-> FALSE, b |-> Nil, err |-> ErrNil, recs |-> <<>>, derr |-> NoErr,
             panic |-> FALSE]

\* No function applied.
FnIdle == fin = FnInput("none", <<>>, <<>>) /\ fres = NoResult

Returned(op, ok, val, tt, from) ==
    [op |-> op, ok |-> ok, val |-> val, tt |-> tt, from |-> from]

Init ==
    /\ dec = [line |-> <<>>, lineNum |-> 0, pos |-> 0, start |-> 0, end |-> 0,
              state |-> "nil", err |-> NoErr]
    /\ \E f \in (-2)..Len(Fixtures) :
          sc = [fix |-> f,
                data |-> IF f <= 0 THEN <<>> ELSE Fixtures[f],
                left |-> IF f = 0 THEN MaxLines ELSE IF f < 0 THEN 1 ELSE 0,
                delivered |-> 0,
                status |-> "open"]
    /\ ret = Returned("none", FALSE, Nil, "zero", "none")
    /\ panicked = FALSE
    /\ nrec = 0
    /\ loop = "start"
    /\ curKey = Nil
    /\ kvs = <<>>
    /\ clean = TRUE
    /\ EncIdle
    /\ FnIdle

\* The caller's loop of TestDecoder_scan is
\*     for dec.NextRecord() { for dec.Err() == nil { k := ScanKey(); v := ScanValue();
\*                                                   if k != nil { kvs = append(kvs, kv{k, v}) } } }
\* loop follows it: "start" before the first NextRecord, "key" before a ScanKey
\* of the loop, "value" before its ScanValue, "done" once the inner loop has
\* ended, "end" once NextRecord has returned false, "off" when the calls made
\* since the last NextRecord are not those of the loop.

CallNextRecord ==
    /\ ~panicked
    /\ \E r \in NextRecord(dec, sc) :
          /\ dec' = r.d
          /\ sc' = r.sc
          /\ ret' = Returned("NextRecord", r.ok, Nil, "zero", "none")
          /\ nrec' = IF r.ok THEN nrec + 1 ELSE nrec
          /\ loop' = IF r.ok THEN "key" ELSE "end"
    /\ curKey' = Nil
    /\ kvs' = <<>>
    /\ clean' = (clean /\ loop \in {"start", "done"})
    /\ UNCHANGED panicked
    /\ UNCHANGED encVars
    /\ UNCHANGED fnVars

CallScanKey ==
    /\ ~panicked
    /\ LET r == ScanKey(dec) IN
          /\ dec' = r.d
          /\ ret' = Returned("ScanKey", ~r.val.isNil, r.val, r.tt, r.from)
          /\ panicked' = r.panic
          /\ IF loop = "key" /\ dec.err = NoErr /\ ~r.panic
             THEN loop' = "value" /\ curKey' = r.val /\ kvs' = kvs /\ clean' = clean
             ELSE loop' = "off" /\ curKey' = Nil /\ kvs' = <<>> /\ clean' = FALSE
    /\ UNCHANGED <<sc, nrec>>
    /\ UNCHANGED encVars
    /\ UNCHANGED fnVars

CallScanValue ==
    /\ ~panicked
    /\ LET r == ScanValue(dec) IN
          /\ dec' = r.d
          /\ ret' = Returned("ScanValue", ~r.val.isNil, r.val, r.tt, r.from)
          /\ panicked' = r.panic
          /\ IF loop = "value" /\ ~r.panic
             THEN /\ loop' = IF r.d.err = NoErr THEN "key" ELSE "done"
                  /\ kvs' = IF curKey.isNil THEN kvs
                            ELSE Append(kvs, [k |-> curKey.b, v |-> r.val])
                  /\ clean' = clean
             ELSE loop' = "off" /\ kvs' = <<>> /\ clean' = FALSE
    /\ curKey' = Nil
    /\ UNCHANGED <<sc, nrec>>
    /\ UNCHANGED encVars
    /\ UNCHANGED fnVars

Next == CallNextRecord \/ CallScanKey \/ CallScanValue

Spec == Init /\ [][Next]_vars

(* ---------------------------- the read loop --------------------------- *)

\* The calls of the read loop alone, in its order:
\*   for dec.NextRecord() { for dec.Err() == nil { dec.ScanKey(); dec.ScanValue() } }
ReadNextRecord == loop \in {"start", "done"} /\ CallNextRecord
ReadScanKey == loop = "key" /\ CallScanKey
ReadScanValue == loop = "value" /\ CallScanValue

ReadNext == ReadNextRecord \/ ReadScanKey \/ ReadScanValue

\* A call of the inner loop is made: the loop moves on to its next statement.
\* Every call returns and one goroutine runs the loop, so the statement after
\* a call is executed: while the inner loop is at ScanKey or at ScanValue, that
\* call is eventually made.
ReadStep ==
    /\ loop \in {"key", "value"} /\ ~panicked
    /\ loop' \in {"key", "value", "done", "off"} /\ loop' # loop

ReadSpec == Init /\ [][ReadNext]_vars /\ WF_loop(ReadStep)

(* --------------------------- encoder calls ---------------------------- *)

\* A new decoder on an empty input, no call made.
DecIdle ==
    /\ dec = [line |-> <<>>, lineNum |-> 0, pos |-> 0, start |-> 0, end |-> 0,
              state |-> "nil", err |-> NoErr]
    /\ sc = [fix |-> 16, data |-> <<>>, left |-> 0, delivered |-> 0, status |-> "open"]
    /\ ret = Returned("none", FALSE, Nil, "zero", "none")
    /\ panicked = FALSE
    /\ nrec = 0
    /\ loop = "start"
    /\ curKey = Nil
    /\ kvs = <<>>
    /\ clean = TRUE

EncInit == DecIdle /\ EncIdle /\ FnIdle

\* The bytes key=value of a pair, as writeKey and writeValue write them.
PairText(keyArg, valueArg) ==
    writeKey([buf |-> <<>>, n |-> 0, failAt |-> 0], keyArg).w.buf
        \o equals \o writeValue([buf |-> <<>>, n |-> 0, failAt |-> 0], valueArg).w.buf

\* One EncodeKeyval call.  A call with a pair of SeqPairs may be followed by
\* more calls and may meet a sink that rejects one of its writes; a call with
\* any other pair of RichPairs is the last of its run, on a sink that accepts.
CallEncodeKeyval ==
    /\ ~epanicked
    /\ ncalls < MaxEncCalls
    /\ \E p \in SeqPairs \cup RichPairs :
       \E f \in IF p \in SeqPairs THEN 0..MaxWrites ELSE {0} :
          LET r == EncodeKeyval(enc, [buf |-> out, n |-> 0, failAt |-> f], p[1], p[2])
              good == ~r.panic /\ r.err = ErrNil
          IN  /\ enc' = r.enc
              /\ out' = r.w.buf
              /\ eret' = EncReturned("EncodeKeyval", p[1], p[2],
                                     IF r.err = ErrSink THEN f ELSE 0, r.err)
              /\ epanicked' = r.panic
              /\ ncalls' = IF p \in SeqPairs THEN ncalls + 1 ELSE MaxEncCalls
              /\ npairs' = IF good THEN npairs + 1 ELSE npairs
              /\ wantOut' = IF ~good THEN wantOut
                         ELSE wantOut \o (IF npairs > 0 THEN space ELSE <<>>) \o PairText(p[1], p[2])
              /\ allOk' = (allOk /\ good)
    /\ prevOut' = out
    /\ prevErr' = eret.err
    /\ UNCHANGED decVars
    /\ UNCHANGED fnVars

CallEndRecord ==
    /\ ~epanicked
    /\ ncalls < MaxEncCalls
    /\ \E f \in 0..1 :
          LET r == EndRecord(enc, [buf |-> out, n |-> 0, failAt |-> f]) IN
              /\ enc' = r.enc
              /\ out' = r.w.buf
              /\ eret' = EncReturned("EndRecord", NilIface, NilIface, f, r.err)
              /\ npairs' = IF r.err = ErrNil THEN 0 ELSE npairs
              /\ wantOut' = IF r.err = ErrNil THEN wantOut \o newline ELSE wantOut
              /\ allOk' = (allOk /\ r.err = ErrNil)
    /\ ncalls' = ncalls + 1
    /\ prevOut' = out
    /\ prevErr' = eret.err
    /\ UNCHANGED epanicked
    /\ UNCHANGED decVars
    /\ UNCHANGED fnVars

CallReset ==
    /\ ~epanicked
    /\ ncalls < MaxEncCalls
    /\ enc' = Reset(enc)
    /\ eret' = EncReturned("Reset", NilIface, NilIface, 0, ErrNil)
    /\ ncalls' = ncalls + 1
    /\ prevOut' = out
    /\ prevErr' = eret.err
    /\ npairs' = 0
    /\ UNCHANGED <<out, epanicked, wantOut, allOk>>
    /\ UNCHANGED decVars
    /\ UNCHANGED fnVars

EncNext == CallEncodeKeyval \/ CallEndRecord \/ CallReset

EncSpec == EncInit /\ [][EncNext]_vars

(* ------------------------ whole-input functions ------------------------ *)

\* The inputs of the functions applied to a whole input.
FnInputs ==
    {FnInput("MarshalKeyvals", a, <<>>) : a \in SeqsUpTo(MarshalArgs, MaxArgs)}
    \cup {FnInput("escape", <<>>, t) : t \in EscapeTexts}
    \cup {FnInput("encode", a, <<>>) : a \in PairLists(MaxPairs)}
    \cup {FnInput("decode", <<>>, t) : t \in DecodeTexts}

FnInit == DecIdle /\ EncIdle /\ fin \in FnInputs /\ fres = NoResult

\* One MarshalKeyvals call.
CallMarshalKeyvals ==
    /\ fin.fn = "MarshalKeyvals" /\ ~fres.done
    /\ LET r == MarshalKeyvals(fin.args) IN
           fres' = FnResult(r.b, r.err, <<>>, NoErr, r.panic)
    /\ UNCHANGED fin
    /\ UNCHANGED <<decVars, encVars>>

\* What unquoteBytes returned for the text written by writeQuotedBytes.
Unquoted(u) ==
    FnResult(IF u.ok THEN Bytes(u.b) ELSE Nil, ErrNil, <<>>,
             IF u.ok THEN NoErr ELSE ErrInvalidQuotedValue, FALSE)

\* The text written between quotes by writeQuotedBytes, given to unquoteBytes.
CallEscape ==
    /\ fin.fn = "escape" /\ ~fres.done
    /\ fres' = Unquoted(unquoteBytes(Bytes(writeQuotedBytes(NewBuffer, fin.text).w.buf)))
    /\ UNCHANGED fin
    /\ UNCHANGED <<decVars, encVars>>

\* The bytes m of the pairs, parsed when the pairs were written.
Parsed(m, p) == FnResult(m.b, ErrNil, p.recs, p.err, p.panic)
EncodedThenParsed(m) ==
    IF m.panic \/ m.err # ErrNil THEN FnResult(m.b, m.err, <<>>, NoErr, m.panic)
    ELSE Parsed(m, parse(m.b.b))

\* The pairs written with EncodeKeyval on one encoder, and the bytes parsed.
CallEncodeDecode ==
    /\ fin.fn = "encode" /\ ~fres.done
    /\ fres' = EncodedThenParsed(marshalFrom(fin.args, 1, NewEncoder, NewBuffer))
    /\ UNCHANGED fin
    /\ UNCHANGED <<decVars, encVars>>

\* The records p of the text, written back when the text parsed.
Written(p, r) == FnResult(Bytes(r.w.buf), r.err, p.recs, p.err, r.panic)
ParsedThenWritten(p) ==
    IF p.panic \/ p.err # NoErr THEN FnResult(Nil, ErrNil, p.recs, p.err, p.panic)
    ELSE Written(p, write(p.recs))

\* The text parsed, and its records written back with write.
CallDecodeEncode ==
    /\ fin.fn = "decode" /\ ~fres.done
    /\ fres' = ParsedThenWritten(parse(fin.text))
    /\ UNCHANGED fin
    /\ UNCHANGED <<decVars, encVars>>

FnNext == CallMarshalKeyvals \/ CallEscape \/ CallEncodeDecode \/ CallDecodeEncode

FnSpec == FnInit /\ [][FnNext]_vars

(* ------------------- the record grammar, as reference ------------------ *)

\* The wire format's grammar, read directly:
\*     record   := WS* (keyval (WS+ keyval)*)? WS*
\*     keyval   := key ("=" value)?
\*     key      := byte+, excluding '=', '"' and bytes <= SP
\*     value    := unquoted | quoted
\*     unquoted := byte+, excluding '=', '"' and bytes <= SP
\*     quoted   := '"' ( '\' byte | byte-except('"', '\') )* '"'
\* GrammarKeyvals(l) is the list of keyvals of a line of this grammar whose
\* quoted values hold only valid escapes; ok is FALSE for any other line.
\* With emptyValue, a key's "=" may also be followed by whitespace or the end
\* of the line, and the key then has an absent value (LenientKeyvals).

WSBytes == 0..SP
TokenBytes == (0..255) \ (WSBytes \cup {EQ, QUOTE})

\* The first index >= i of l whose byte is outside S, Len(l) + 1 if none.
RunEnd(l, i, S) ==
    CHOOSE j \in i..(Len(l) + 1) :
        /\ \A k \in i..(j - 1) : l[k] \in S
        /\ j = Len(l) + 1 \/ l[j] \notin S

\* The number of consecutive backslashes that end right before index j, after index i.
BackslashesBefore(l, i, j) == (j - 1) - (CHOOSE m \in i..(j - 1) :
                                   /\ \A k \in (m + 1)..(j - 1) : l[k] = BSL
                                   /\ m = i \/ l[m] # BSL)

\* The index of the quote closing the quoted value opened at index i, 0 if none.
ClosingQuote(l, i) ==
    LET closes(j) == l[j] = QUOTE /\ BackslashesBefore(l, i, j) % 2 = 0 IN
    IF \E j \in (i + 1)..Len(l) : closes(j)
    THEN CHOOSE j \in (i + 1)..Len(l) : closes(j) /\ \A k \in (i + 1)..(j - 1) : ~closes(k)
    ELSE 0

NotALine == [ok |-> FALSE, kvs |-> <<>>]
GrammarKV(k, absent, b) == [k |-> k, absent |-> absent, b |-> b]

RECURSIVE GrammarFrom(_, _, _, _)
GrammarFrom(l, i, acc, emptyValue) ==
    LET j == RunEnd(l, i, WSBytes) IN
    IF j > Len(l) THEN [ok |-> TRUE, kvs |-> acc]
    ELSE IF l[j] \notin TokenBytes THEN NotALine
    ELSE LET ke == RunEnd(l, j, TokenBytes)
             k == SubSeq(l, j, ke - 1)
         IN
         IF ke > Len(l) THEN [ok |-> TRUE, kvs |-> Append(acc, GrammarKV(k, TRUE, <<>>))]
         ELSE IF l[ke] \in WSBytes
              THEN GrammarFrom(l, ke, Append(acc, GrammarKV(k, TRUE, <<>>)), emptyValue)
         ELSE IF l[ke] = QUOTE THEN NotALine
         ELSE IF ke + 1 > Len(l)
              THEN IF emptyValue THEN [ok |-> TRUE, kvs |-> Append(acc, GrammarKV(k, TRUE, <<>>))]
                   ELSE NotALine
         ELSE IF l[ke + 1] \in WSBytes
              THEN IF emptyValue
                   THEN GrammarFrom(l, ke + 1, Append(acc, GrammarKV(k, TRUE, <<>>)), emptyValue)
                   ELSE NotALine
         ELSE IF l[ke + 1] = QUOTE
              THEN LET q == ClosingQuote(l, ke + 1)
                       u == unescapeFrom(SubSeq(l, ke + 2, q - 1), 1, <<>>)
                   IN
                   IF q = 0 THEN NotALine
                   ELSE IF ~u.ok THEN NotALine
                   ELSE IF q < Len(l) /\ l[q + 1] \notin WSBytes THEN NotALine
                   ELSE GrammarFrom(l, q + 1, Append(acc, GrammarKV(k, FALSE, u.b)), emptyValue)
         ELSE IF l[ke + 1] \notin TokenBytes THEN NotALine
         ELSE LET ve == RunEnd(l, ke + 1, TokenBytes) IN
              IF ve <= Len(l) /\ l[ve] \notin WSBytes THEN NotALine
              ELSE GrammarFrom(l, ve, Append(acc, GrammarKV(k, FALSE, SubSeq(l, ke + 1, ve - 1))),
                               emptyValue)

GrammarKeyvals(l) == GrammarFrom(l, 1, <<>>, FALSE)
LenientKeyvals(l) == GrammarFrom(l, 1, <<>>, TRUE)

\* A decoded pair agrees with a pair of the grammar: the same key, the same
\* value bytes, an absent value for a bare key, a present one for a non-empty value.
SamePair(got, want) ==
    /\ got.k = want.k
    /\ got.v.b = want.b
    /\ want.absent => got.v.isNil
    /\ want.b # <<>> => ~got.v.isNil

SameKeyvals(got, want) ==
    /\ Len(got) = Len(want)
    /\ \A i \in 1..Len(got) : SamePair(got[i], want[i])

KV(k, v) == [k |-> k, v |-> v]

(* ------------------------------- claims ------------------------------- *)

\* [(a,1),(b,bar),(x,2h3s),(r,esc<TAB>),(d,absent),(e,sf)]
ScanKeyvals ==
    <<KV(<<97>>, Bytes(<<49>>)), KV(<<98>>, Bytes(<<98, 97, 114>>)),
      KV(<<120>>, Bytes(<<50, 104, 51, 115>>)), KV(<<114>>, Bytes(<<101, 115, 99, 9>>)),
      KV(<<100>>, Nil), KV(<<101>>, Bytes(<<115, 102>>))>>

\* C1: when the read loop (ScanKey, ScanValue, ScanKey, ...) of a record ends
\* on a line of the grammar, it ends with end of record and no fault, and the
\* pairs it collected are the grammar's keyvals of the line, in order; on the
\* line a=1 b="bar" x=2h3s r="esc\t" d e=sf they are exactly ScanKeyvals.
C1_ScanInOrder ==
    /\ (loop = "done" /\ GrammarKeyvals(dec.line).ok) =>
          /\ dec.err = EndOfRecord
          /\ SameKeyvals(kvs, GrammarKeyvals(dec.line).kvs)
    /\ (loop = "done" /\ sc.fix = 1) => (dec.err = EndOfRecord /\ kvs = ScanKeyvals)

C1_Witness == loop = "done" /\ sc.fix = 1 /\ dec.err = EndOfRecord /\ kvs = ScanKeyvals

\* [(y,absent),(d,absent),(y,g)]
EqSpaceKeyvals == <<KV(<<121>>, Nil), KV(<<100>>, Nil), KV(<<121>>, Bytes(<<103>>))>>

\* C2: a key whose "=" is followed by whitespace has an absent value and the
\* next token of the line is a new key: when the read loop ends on a line of
\* the grammar that allows such keys, the pairs it collected are the line's
\* keyvals, and on the line y= d y=g they are exactly EqSpaceKeyvals.
C2_EqThenSpaceIsAbsent ==
    /\ (loop = "done" /\ LenientKeyvals(dec.line).ok) =>
          SameKeyvals(kvs, LenientKeyvals(dec.line).kvs)
    /\ (loop = "done" /\ sc.fix = 2) => kvs = EqSpaceKeyvals

\* After ScanKey returned a key (dec.end is the index right after it), no value
\* follows: the key is bare, or its "=" is followed by the end of the line or
\* by whitespace.
NoValueFollows(d) ==
    \/ d.end = Len(d.line)
    \/ d.line[d.end + 1] <= SP
    \/ /\ d.line[d.end + 1] = EQ
       /\ d.end + 1 = Len(d.line) \/ d.line[d.end + 2] <= SP

\* C3: the ScanValue that follows a ScanKey which returned a key with no
\* value after it returns nil and sets no fault.
C3_NoValueIsNil ==
    [][(loop = "value" /\ ~curKey.isNil /\ NoValueFollows(dec) /\ ret'.op = "ScanValue")
          => (ret'.val = Nil /\ dec'.err \in {NoErr, EndOfRecord})]_vars

IsLexFault(e) == e.kind \in {"SyntaxError", "ErrUnterminatedValue", "ErrInvalidQuotedValue"}
IsFatal(e) == IsLexFault(e) \/ e.kind = "io"

\* C4: every lexical fault in Err is a SyntaxError with the line and column;
\* a="1 gives (unterminated quoted value, 1, 5), a="\t1 gives (unterminated
\* quoted value, 1, 7) and a="\u1" gives (invalid quoted value, 1, 8).
C4_FaultsArePositioned ==
    /\ IsLexFault(dec.err) =>
          /\ dec.err.kind = "SyntaxError"
          /\ dec.err.Line = nrec
          /\ dec.err.Pos \in 1..(Len(dec.line) + 1)
    /\ (sc.fix = 9 /\ loop = "done") =>
          dec.err = SyntaxError("unterminated quoted value", 1, 5)
    /\ (sc.fix = 10 /\ loop = "done") =>
          dec.err = SyntaxError("unterminated quoted value", 1, 7)
    /\ (sc.fix = 11 /\ loop = "done") =>
          dec.err = SyntaxError("invalid quoted value", 1, 8)

\* The last call raised an "unexpected" fault in state function f.
RaisedIn(f) == ret.from = f /\ dec.err.kind = "SyntaxError"

\* The fault in Err names the byte at its column of the current line, which is
\* line number nrec of the input.
FaultNamesByte ==
    /\ dec.err.Line = nrec
    /\ nrec = sc.delivered
    /\ dec.err.Pos \in 1..Len(dec.line)
    /\ dec.line[dec.err.Pos] \in {EQ, QUOTE}
    /\ dec.err.Msg = UnexpectedMsg(dec.line[dec.err.Pos])

\* C5: a fault raised while skipping separators is unexpected '=' or
\* unexpected '"', at the 1-based line (blank lines counted) and column of
\* that byte, which stands where a key may start; a=1 LF =bar gives
\* (unexpected '=', 2, 1).
C5_UnexpectedWhereKeyExpected ==
    /\ RaisedIn("garbage") =>
          /\ FaultNamesByte
          /\ \/ dec.err.Pos = 1
             \/ dec.line[dec.err.Pos - 1] <= SP
             \/ dec.line[dec.err.Pos - 1] = QUOTE
          /\ ret.val = Nil
    /\ (sc.fix = 3 /\ loop = "done" /\ nrec = 2) => dec.err = SyntaxError("unexpected '='", 2, 1)
    /\ (sc.fix = 4 /\ loop = "done" /\ nrec = 2) => dec.err = SyntaxError("unexpected '\"'", 2, 1)
    /\ (sc.fix = 5 /\ loop = "done" /\ nrec = 2) =>
          dec.err = SyntaxError("unexpected '='", 2, 3)

C5_Witness ==
    /\ sc.fix = 3
    /\ RaisedIn("garbage")
    /\ dec.err = SyntaxError("unexpected '='", 2, 1)
    /\ dec.line = <<61, 98, 97, 114>>

HasEqOrQuote(b) == \E i \in 1..Len(b) : b[i] \in {EQ, QUOTE}

\* C6: a '"' inside a key and an '=' or '"' inside an unquoted value are
\* faults "unexpected <char>" at the column of that byte, and no key and no
\* unquoted value that holds such a byte is returned.
C6_UnexpectedInsideToken ==
    /\ RaisedIn("key") =>
          /\ FaultNamesByte
          /\ dec.line[dec.err.Pos] = QUOTE
          /\ dec.err.Pos > 1 /\ dec.line[dec.err.Pos - 1] \in TokenBytes
          /\ ret.val = Nil
    /\ RaisedIn("ivalue") => (FaultNamesByte /\ ret.val = Nil)
    /\ ret.tt = "tokKey" => ~HasEqOrQuote(ret.val.b)
    /\ (ret.tt = "tokValue" /\ ret.from = "ivalue") => ~HasEqOrQuote(ret.val.b)
    /\ (sc.fix = 6 /\ loop = "done" /\ nrec = 2) =>
          dec.err = SyntaxError("unexpected '\"'", 2, 2)
    /\ (sc.fix = 7 /\ loop = "done" /\ nrec = 2) =>
          dec.err = SyntaxError("unexpected '\"'", 2, 4)
    /\ (sc.fix = 8 /\ loop = "done" /\ nrec = 2) =>
          dec.err = SyntaxError("unexpected '='", 2, 4)
    /\ (dec.line = <<97, 61, 61>> /\ loop = "done") =>
          dec.err = SyntaxError("unexpected '='", nrec, 3)

C6_Witness ==
    /\ sc.fix = 8
    /\ RaisedIn("ivalue")
    /\ dec.err = SyntaxError("unexpected '='", 2, 4)
    /\ ret.op = "ScanValue"

\* C7: with a lexical fault in Err, a ScanKey or ScanValue call returns nil
\* and leaves Err (and the whole decoder) as it is.
C7_NoTokenAfterFault ==
    [][(IsLexFault(dec.err) /\ ret'.op \in {"ScanKey", "ScanValue"})
          => (ret'.val = Nil /\ dec' = dec)]_vars

\* A scan call made after a fault, with bytes of the line still unread.
C7_Witness ==
    /\ IsLexFault(dec.err)
    /\ ret.op = "ScanKey" /\ ret.from = "none" /\ ret.val = Nil
    /\ dec.pos + 1 < Len(dec.line)

\* C8: with a lexical fault or a stream error in Err, a NextRecord call
\* returns false, reads nothing from the stream and leaves Err as it is.
C8_FatalIsSticky ==
    [][(IsFatal(dec.err) /\ ret'.op = "NextRecord")
          => (~ret'.ok /\ dec' = dec /\ sc' = sc /\ nrec' = nrec)]_vars

\* NextRecord was refused after a lexical fault although the stream has more lines.
C8_Witness ==
    /\ IsLexFault(dec.err)
    /\ ret.op = "NextRecord" /\ ~ret.ok
    /\ sc.status = "open" /\ sc.fix = 17 /\ sc.data = <<98, 61, 50>>

\* C9: a NextRecord call that returns false without a lexical fault or a
\* stream error leaves nil in Err: neither the end of the input nor the
\* EndOfRecord of the last record stays behind.
C9_CleanEndIsNil ==
    (ret.op = "NextRecord" /\ ~ret.ok /\ ~IsFatal(dec.err)) => dec.err = NoErr

\* The read loop has read both records of a=1 LF b=2 LF to their end and
\* NextRecord has then returned false.
C9_Witness ==
    /\ clean /\ loop = "end" /\ sc.fix = 15 /\ nrec = 2
    /\ sc.status = "eof" /\ dec.state = "eol"
    /\ dec.err = NoErr

\* The number of lines of a text: its newlines, and a last line without one.
NumLines(t) ==
    Cardinality({i \in 1..Len(t) : t[i] = LF})
        + (IF Len(t) > 0 /\ t[Len(t)] # LF THEN 1 ELSE 0)

IsBlank(l) == \A i \in 1..Len(l) : l[i] <= SP

\* C10: NextRecord has returned true once for each line the stream delivered,
\* blank lines and a last line without a newline included, and false at the
\* end of the input; a blank line gives no keyval and a record holds only
\* the keyvals of its own line.
C10_OneRecordPerLine ==
    /\ nrec = sc.delivered
    /\ (ret.op = "NextRecord" /\ ret.ok) => (dec.pos = 0 /\ dec.lineNum = nrec)
    /\ (ret.op = "NextRecord" /\ sc.status = "eof") => ~ret.ok
    /\ (sc.fix > 0 /\ loop = "end" /\ clean /\ ~IsFatal(dec.err)) =>
          nrec = NumLines(Fixtures[sc.fix])
    /\ (loop = "done" /\ IsBlank(dec.line)) => (kvs = <<>> /\ dec.err = EndOfRecord)
    /\ (loop = "done" /\ sc.fix = 12) =>
          kvs = <<KV(<<121>>, Bytes(IF nrec = 1 THEN <<102>> ELSE <<103>>))>>
    /\ (loop = "done" /\ sc.fix = 13) =>
          kvs = <<KV(<<121>>, Bytes(IF nrec = 1 THEN <<102>> ELSE <<103>>))>>

\* The read loop has read y=f LF y=g, whose last line has no newline, as two
\* records, and the two blank lines of LF LF as two records.
C10_Witness ==
    \/ /\ sc.fix = 12 /\ loop = "end" /\ clean /\ nrec = 2 /\ dec.err = NoErr
    \/ /\ sc.fix = 14 /\ loop = "end" /\ clean /\ nrec = 2 /\ dec.err = NoErr

\* The last call was a ScanValue that scanned a quoted value (to its closing
\* quote or to the end of the line).
ScannedQuoted == ret.op = "ScanValue" /\ ret.from \in {"qvalue", "qvalueEsc"}

\* The index in dec.line of the quote that opened that value: qvalue leaves it
\* in dec.start and moves start past it when it closes a value without escapes.
OpenQuote == IF ret.from = "qvalue" /\ ret.tt = "tokValue" THEN dec.start ELSE dec.start + 1

\* The key that starts at index i of line l, where l[i] is a byte of a key.
KeyAt(l, i) == SubSeq(l, i, RunEnd(l, i, TokenBytes) - 1)

\* C11: a quoted value ends at its closing unescaped quote whatever follows:
\* the decoder stands right after that quote, and when the next byte is a byte
\* of a key the next ScanKey returns the key that starts there (unless a '"'
\* ends it, a fault); y="f\n"y=g gives [(y, f<LF>), (y, g)] in one record and
\* a="a"a gives [(a, a), (a, absent)].
C11_QuoteEndsToken ==
    [][/\ (ScannedQuoted /\ ret.tt \in tokValueOrQuoted) =>
             /\ dec.pos = ClosingQuote(dec.line, OpenQuote)
             /\ dec.state = (IF dec.pos < Len(dec.line) THEN "garbage" ELSE "eol")
       /\ (/\ ScannedQuoted /\ ret.tt \in tokValueOrQuoted /\ dec.err = NoErr
           /\ dec.pos < Len(dec.line) /\ dec.line[dec.pos + 1] \in TokenBytes
           /\ ret'.op = "ScanKey"
           /\ LET e == RunEnd(dec.line, dec.pos + 1, TokenBytes)
              IN  e > Len(dec.line) \/ dec.line[e] # QUOTE)
          => (ret'.val = Bytes(KeyAt(dec.line, dec.pos + 1)) /\ dec'.start = dec.pos)
       /\ (loop = "done" /\ sc.fix = 18) =>
             /\ dec.err = EndOfRecord /\ nrec = 1
             /\ kvs = <<KV(<<121>>, Bytes(<<102, LF>>)), KV(<<121>>, Bytes(<<103>>))>>
       /\ (loop = "done" /\ dec.line = <<97, EQ, QUOTE, 97, QUOTE, 97>>) =>
             kvs = <<KV(<<97>>, Bytes(<<97>>)), KV(<<97>>, Nil)>>]_vars

\* The read loop has read y="f\n"y=g to its end as one record of two pairs.
C11_Witness ==
    /\ sc.fix = 18 /\ loop = "done" /\ dec.err = EndOfRecord /\ nrec = 1
    /\ kvs = <<KV(<<121>>, Bytes(<<102, LF>>)), KV(<<121>>, Bytes(<<103>>))>>

\* C12: in a quoted value a quote closes the value exactly when an even number
\* of backslashes stands right before it (a backslash escapes the next byte,
\* a doubled backslash does not).  With such a quote the value ends there and
\* is the unescaped content; without one the fault is "unterminated quoted
\* value", at the end of the line, and no value is returned: so for a="1\.
C12_EscapedQuoteDoesNotClose ==
    /\ ScannedQuoted =>
          LET o == OpenQuote
              q == ClosingQuote(dec.line, o)
              u == unescapeFrom(SubSeq(dec.line, o + 1, q - 1), 1, <<>>)
          IN  /\ dec.line[o] = QUOTE
              /\ q = 0 => /\ dec.err.Msg = "unterminated quoted value"
                          /\ ret.val = Nil
                          /\ dec.pos = Len(dec.line)
              /\ q # 0 => /\ dec.pos = q
                          /\ dec.err.Msg # "unterminated quoted value"
                          /\ u.ok => (dec.err = NoErr /\ ret.val.b = u.b)
                          /\ ~u.ok => (dec.err.Msg = "invalid quoted value" /\ ret.val = Nil)
    /\ (loop = "done" /\ sc.fix = 19) =>
          (dec.err.Msg = "unterminated quoted value" /\ kvs = <<KV(<<97>>, Nil)>>)
    /\ (loop = "done" /\ dec.line = <<97, EQ, QUOTE, BSL, QUOTE, QUOTE>>) =>
          kvs = <<KV(<<97>>, Bytes(<<QUOTE>>))>>
    /\ (loop = "done" /\ dec.line = <<97, EQ, QUOTE, BSL, BSL, QUOTE>>) =>
          kvs = <<KV(<<97>>, Bytes(<<BSL>>))>>
    /\ (loop = "done" /\ dec.line = <<97, EQ, QUOTE, BSL, QUOTE>>) =>
          (dec.err.Msg = "unterminated quoted value" /\ kvs = <<KV(<<97>>, Nil)>>)

\* ScanValue has run into the end of a="1\ right after the backslash.
C12_Witness ==
    /\ sc.fix = 19 /\ ScannedQuoted /\ ret.from = "qvalueEsc"
    /\ dec.err.Msg = "unterminated quoted value" /\ ret.val = Nil
    /\ dec.pos = Len(dec.line)

\* C13: with EndOfRecord in Err, a ScanKey or ScanValue call returns nil and
\* leaves the decoder (position, state function, Err) as it is, and a
\* NextRecord call clears the EndOfRecord.
C13_EndOfRecordUntilNextRecord ==
    [][/\ (dec.err = EndOfRecord /\ ret'.op \in {"ScanKey", "ScanValue"})
             => (ret'.val = Nil /\ dec' = dec /\ dec.state = "eol")
       /\ (dec.err = EndOfRecord /\ ret'.op = "NextRecord")
             => (dec'.err # EndOfRecord /\ (ret'.ok => dec'.err = NoErr))]_vars

\* A ScanValue call made at the end of a record that held a pair.
C13_Witness ==
    /\ dec.err = EndOfRecord
    /\ ret.op = "ScanValue" /\ ret.from = "none" /\ ret.val = Nil
    /\ loop = "off" /\ Len(dec.line) > 0 /\ ~IsBlank(dec.line)

\* C14: a key returned by ScanKey is not empty and holds no '=', no '"' and
\* no byte <= ' '; so are the keys the read loop collected.
C14_KeysAreClean ==
    /\ (ret.op = "ScanKey" /\ ~ret.val.isNil) =>
          /\ Len(ret.val.b) > 0
          /\ \A i \in 1..Len(ret.val.b) : ret.val.b[i] \in TokenBytes
    /\ (ret.op = "ScanKey" /\ ret.tt = "tokKey") => ~ret.val.isNil
    /\ \A i \in 1..Len(kvs) :
          Len(kvs[i].k) > 0 /\ \A j \in 1..Len(kvs[i].k) : kvs[i].k[j] \in TokenBytes

\* ScanKey has returned the two-byte key a\ of the line SP a\=a, which it
\* reached over a leading space.
C14_Witness ==
    /\ ret.op = "ScanKey" /\ ret.val = Bytes(<<97, BSL>>)
    /\ dec.line = <<SP, 97, BSL, EQ, 97>>

(* --------------------------- encoder claims --------------------------- *)

\* The last call was an EncodeKeyval that no sink failure cut short.
Encoded == eret.op = "EncodeKeyval" /\ eret.err # ErrSink
EncodedOk == eret.op = "EncodeKeyval" /\ eret.err = ErrNil /\ ~epanicked

\* s ends with t.
EndsWith(s, t) == Len(s) >= Len(t) /\ SubSeq(s, Len(s) - Len(t) + 1, Len(s)) = t

\* k1=v1 and k2=v2
TextK1V1 == <<107, 49, 61, 118, 49>>
TextK2V2 == <<107, 50, 61, 118, 50>>

\* C15: when every call so far succeeded, an EncodeKeyval added to the sink
\* the pair's key=value, with one space before it exactly when it is not the
\* first pair of its record; no record of the output starts or ends with a
\* space, and (k1, v1), (k2, v2) give k1=v1 k2=v2.
C15_SingleSpaceBetweenPairs ==
    /\ (allOk /\ EncodedOk) =>
          out = prevOut \o (IF npairs > 1 THEN space ELSE <<>>)
                        \o PairText(eret.key, eret.value)
    /\ allOk =>
          /\ out # <<>> => (out[1] # SP /\ out[Len(out)] # SP)
          /\ \A i \in 1..Len(out) :
                out[i] = LF => /\ i < Len(out) => out[i + 1] # SP
                               /\ i > 1 => out[i - 1] # SP
    /\ (/\ allOk /\ EncodedOk /\ prevOut = TextK1V1 /\ npairs = 2
        /\ eret.key = Str(<<107, 50>>) /\ eret.value = Str(<<118, 50>>))
          => out = TextK1V1 \o <<SP>> \o TextK2V2

\* Three pairs written in one record.
C15_Witness ==
    /\ allOk /\ EncodedOk /\ npairs = 3
    /\ out = TextK1V1 \o <<SP>> \o TextK2V2 \o <<SP>> \o TextK1V1

\* C16: a successful EndRecord adds one newline to the sink and clears
\* needSep; when every call so far succeeded the sink holds the records in
\* call order, each ended record closed by one newline and no pair preceded
\* by a space at the start of a record; an EndRecord with no pair before it
\* gives an empty line.
C16_EndRecordStartsNewRecord ==
    /\ (eret.op = "EndRecord" /\ eret.err = ErrNil) =>
          (out = prevOut \o <<LF>> /\ ~enc.needSep /\ npairs = 0)
    /\ allOk => out = wantOut
    /\ (allOk /\ eret.op = "EndRecord" /\ ncalls = 1) => out = <<LF>>
    /\ (/\ allOk /\ EncodedOk /\ prevOut = TextK1V1 \o <<LF>>
        /\ eret.key = Str(<<107, 50>>) /\ eret.value = Str(<<118, 50>>))
          => out = TextK1V1 \o <<LF>> \o TextK2V2

\* A pair, EndRecord, a pair: the second pair starts the second line.
C16_Witness ==
    /\ allOk /\ ncalls = 3 /\ EncodedOk /\ ~epanicked
    /\ out = TextK1V1 \o <<LF>> \o TextK2V2

\* C17: an EncodeKeyval with a nil key returns ErrNilKey and leaves the sink
\* as it was, at the start of a record and after earlier pairs of the record.
C17_NilKeyWritesNothing ==
    (Encoded /\ eret.key = NilIface) => (eret.err = ErrNilKey /\ out = prevOut)

\* The text a key of a text kind gives: the string itself, the bytes of
\* MarshalText, what String() returns.
IsTextKey(x) ==
    x.kind \in {"string", "named", "marshaler", "stringer"} /\ x.hook = "ok" /\ ~x.nilptr
KeyTextOf(x) == IF x.kind = "stringer" THEN x.stext ELSE x.text
BadKeyText(t) == Len(t) = 0 \/ \E i \in 1..Len(t) : t[i] \notin TokenBytes

\* C18: for a key that is a string, a named string, a text-marshaler or a
\* stringer, EncodeKeyval returns ErrInvalidKey and writes nothing of the key
\* when the key's text is empty or holds a byte <= ' ', '=' or '"'; any other
\* key text is written as it is, followed by '='.
C18_InvalidKeyText ==
    (Encoded /\ IsTextKey(eret.key)) =>
        LET t == KeyTextOf(eret.key) IN
        /\ BadKeyText(t) => /\ eret.err = ErrInvalidKey
                            /\ out \in {prevOut, prevOut \o space}
        /\ ~BadKeyText(t) =>
              /\ eret.err # ErrInvalidKey
              /\ \E sep \in {<<>>, space} :
                    /\ Len(out) >= Len(prevOut \o sep \o t \o equals)
                    /\ SubSeq(out, 1, Len(prevOut \o sep \o t \o equals))
                          = prevOut \o sep \o t \o equals

\* A text-marshaler whose text is one space was refused after a pair was written.
C18_Witness ==
    /\ Encoded /\ eret.key = Marshaler(<<SP>>) /\ eret.err = ErrInvalidKey
    /\ prevOut = TextK1V1

\* A key that is nil: the nil interface, a nil pointer of a plain type, or a
\* nil pointer whose hook panics when called on it.
IsNilKey(x) == x.kind = "nil" \/ (x.nilptr /\ (x.kind = "ptr" \/ x.hook = "panic"))

\* C19: EncodeKeyval with a nil key (a nil interface, a nil pointer of a plain
\* type, a nil pointer whose MarshalText or String panics on it) returns
\* ErrNilKey and does not panic.
C19_NilKeyIsErrNilKey ==
    (eret.op = "EncodeKeyval" /\ eret.failAt = 0 /\ IsNilKey(eret.key)) =>
        (eret.err = ErrNilKey /\ ~epanicked)

\* A nil pointer of a type with both hooks was refused with ErrNilKey.
C19_Witness ==
    /\ eret.op = "EncodeKeyval" /\ eret.key = NilPtrOf("both")
    /\ eret.err = ErrNilKey /\ ~epanicked

\* A value that is nil: the nil interface, a nil pointer of a plain type, or a
\* nil pointer whose hook panics when called on it.
IsNilValue(x) == x.kind = "nil" \/ (x.nilptr /\ (x.kind = "ptr" \/ x.hook = "panic"))

\* C20: a nil value is written as the letters nil, without quotes: the key k
\* with a nil value adds k=nil to the sink.
C20_NilValueIsNil ==
    (EncodedOk /\ IsNilValue(eret.value) /\ eret.key = Str(<<107>>)) =>
        EndsWith(out, <<107, 61, 110, 105, 108>>)

\* The texts nil and <nil>, and the pairs k="nil" and k=<nil>.
TextNil == <<110, 105, 108>>
TextAngleNil == <<60, 110, 105, 108, 62>>
TextKQuotedNil == <<107, 61, QUOTE, 110, 105, 108, QUOTE>>
TextKAngleNil == <<107, 61, 60, 110, 105, 108, 62>>

\* C21: the string nil as a value is written in quotes, k="nil", which is not
\* what a nil value writes; the string <nil> is written as it is, k=<nil>.
C21_NilTextIsQuoted ==
    (EncodedOk /\ eret.key = Str(<<107>>)) =>
        /\ eret.value = Str(TextNil) =>
              /\ EndsWith(out, TextKQuotedNil)
              /\ PairText(eret.key, eret.value) # PairText(eret.key, NilIface)
        /\ eret.value = Str(TextAngleNil) => EndsWith(out, TextKAngleNil)

\* A value of a text kind, and the text it gives: the string itself, the
\* bytes of MarshalText, what String() returns, what fmt.Sprint prints.
IsTextValue(x) ==
    x.kind \in {"string", "named", "marshaler", "stringer"} /\ x.hook = "ok" /\ ~x.nilptr
ValueTextOf(x) == IF x.kind = "stringer" THEN x.stext ELSE x.text
\* The text holds a space, '=' or '"', or is the text a nil value is written as.
MustQuote(t) == t = nilbytes \/ \E i \in 1..Len(t) : t[i] \in {SP, EQ, QUOTE}
\* What the last call, made with the key k, added to the sink after k=.
WrittenValue ==
    LET from == IF Len(out) > Len(prevOut) /\ out[Len(prevOut) + 1] = SP
                THEN Len(prevOut) + 4 ELSE Len(prevOut) + 3
    IN  SubSeq(out, from, Len(out))

\* C22: the value's text is written between quotes exactly when it holds a
\* space, '=' or '"' or is the text a nil value is written as, and as it is
\* otherwise; the same for a string, the bytes of a text-marshaler, the text
\* of a stringer and the text of the generic fallback.
C22_QuotedIffNeeded ==
    (EncodedOk /\ eret.key = Str(<<107>>) /\ IsTextValue(eret.value)) =>
        LET t == ValueTextOf(eret.value) IN
        IF MustQuote(t)
        THEN /\ Len(WrittenValue) >= 2
             /\ WrittenValue[1] = QUOTE /\ WrittenValue[Len(WrittenValue)] = QUOTE
             /\ WrittenValue # t
        ELSE WrittenValue = t

\* C22 with a control character taken as a space: the rule still differs
\* between a string and the bytes of a text-marshaler.
C22_QuotedIffNeededOrControl ==
    (EncodedOk /\ eret.key = Str(<<107>>) /\ IsTextValue(eret.value)) =>
        LET t == ValueTextOf(eret.value) IN
        IF t = nilbytes \/ \E i \in 1..Len(t) : needsQuotedValueRune(t[i])
        THEN /\ Len(WrittenValue) >= 2
             /\ WrittenValue[1] = QUOTE /\ WrittenValue[Len(WrittenValue)] = QUOTE
        ELSE WrittenValue = t

\* A holder whose hook panics when it is called.
HookPanics(x) == x.kind \in {"marshaler", "stringer", "both"} /\ x.hook = "panic"

\* C23: when the MarshalText or String hook of a key or a value panics, the
\* call returns ErrNilKey (key) or writes what a nil value writes (value) if
\* the holder is a nil pointer, and the panic reaches the caller if it is not;
\* no call panics otherwise.
C23_PanicRecoveredIffNilPointer ==
    (eret.op = "EncodeKeyval" /\ eret.failAt = 0) =>
        /\ (HookPanics(eret.key) /\ eret.key.nilptr) =>
              (~epanicked /\ eret.err = ErrNilKey)
        /\ (HookPanics(eret.key) /\ ~eret.key.nilptr) => epanicked
        /\ (eret.key = Str(<<107>>) /\ HookPanics(eret.value) /\ eret.value.nilptr) =>
              /\ ~epanicked /\ eret.err = ErrNil
              /\ EndsWith(out, PairText(eret.key, NilIface))
        /\ (eret.key = Str(<<107>>) /\ HookPanics(eret.value) /\ ~eret.value.nilptr) =>
              epanicked
        /\ epanicked =>
              \/ HookPanics(eret.key) /\ ~eret.key.nilptr
              \/ HookPanics(eret.value) /\ ~eret.value.nilptr

\* The String hook of a value that is not a nil pointer panicked and the
\* panic left EncodeKeyval.
C23_Witness ==
    /\ eret.op = "EncodeKeyval" /\ eret.key = Str(<<107>>)
    /\ eret.value = Val("stringer", FALSE, "panic", <<>>, <<>>)
    /\ epanicked

TextDecimalV == <<53, 46, 57, 61, 118>>
TextKDecimal == <<107, 61, 53, 46, 57>>

\* C25: of a key or a value with both hooks the text of MarshalText is
\* written, not that of String: marshalerStringer{5, 9} gives 5.9=v as a key
\* and k=5.9 as a value, never 14; a string is written as it is and ends in
\* no hook's error or panic.
C25_MarshalerBeforeStringer ==
    (Encoded /\ eret.failAt = 0) =>
        /\ (eret.key.kind = "both" /\ ~eret.key.nilptr) =>
              /\ eret.err = ErrNil /\ ~epanicked
              /\ EndsWith(out, eret.key.text \o equals \o <<118>>)
              /\ eret.key = MarshalerStringer => EndsWith(out, TextDecimalV)
        /\ (eret.key = Str(<<107>>) /\ eret.value.kind = "both" /\ ~eret.value.nilptr) =>
              /\ eret.err = ErrNil /\ ~epanicked
              /\ EndsWith(out, <<107, EQ>> \o eret.value.text)
              /\ eret.value = MarshalerStringer => EndsWith(out, TextKDecimal)
        /\ (eret.key = Str(<<107>>) /\ eret.value = Str(<<118>>)) =>
              /\ eret.err = ErrNil /\ ~epanicked
              /\ EndsWith(out, <<107, EQ, 118>>)

\* marshalerStringer{5, 9} was the key of a pair written after another pair.
C25_Witness ==
    /\ EncodedOk /\ eret.key = MarshalerStringer
    /\ out = TextK1V1 \o space \o TextDecimalV

\* A key and a value EncodeKeyval accepts on a new encoder.
ValidKey(x) ==
    \/ IsTextKey(x) /\ ~BadKeyText(KeyTextOf(x))
    \/ x \in {MarshalerStringer, Ptr(<<49>>)}
ValidValue(x) == x.kind # "composite" /\ (x.hook = "ok" \/ x.nilptr)
EncodeFaults == {ErrNilKey, ErrInvalidKey, ErrUnsportedType}

\* C28: a fault of EncodeKeyval is not kept: when the call before returned
\* ErrNilKey, ErrInvalidKey or ErrUnsportedType, an EncodeKeyval with a valid
\* key and a valid value on a sink that accepts returns nil and adds the
\* pair's key=value at the end of the sink.
C28_EncodeFaultsNotSticky ==
    (Encoded /\ prevErr \in EncodeFaults /\ ValidKey(eret.key) /\ ValidValue(eret.value)) =>
        /\ eret.err = ErrNil /\ ~epanicked
        /\ out \in {prevOut \o PairText(eret.key, eret.value),
                    prevOut \o space \o PairText(eret.key, eret.value)}

\* The first call was refused for a composite key and the second wrote k1=v1.
C28_Witness ==
    /\ EncodedOk /\ prevErr = ErrUnsportedType /\ ncalls = 2
    /\ eret.key = Str(<<107, 49>>) /\ EndsWith(out, TextK1V1)

\* The pairs of an argument list, a nil value added to an odd one.
RECURSIVE PairsOf(_)
PairsOf(a) ==
    IF Len(a) = 0 THEN <<>>
    ELSE IF Len(a) = 1 THEN <<<<a[1], NilIface>>>>
    ELSE <<<<a[1], a[2]>>>> \o PairsOf(SubSeq(a, 3, Len(a)))
\* key=value of each pair, one space between two pairs.
RECURSIVE JoinPairs(_)
JoinPairs(ps) ==
    IF Len(ps) = 0 THEN <<>>
    ELSE IF Len(ps) = 1 THEN PairText(ps[1][1], ps[1][2])
    ELSE PairText(ps[1][1], ps[1][2]) \o space \o JoinPairs(Tail(ps))
\* EncodeKeyval on a new encoder accepts the pair.
PairEncodes(p) ==
    LET r == EncodeKeyval(NewEncoder, NewBuffer, p[1], p[2]) IN r.err = ErrNil /\ ~r.panic

\* C30: MarshalKeyvals of no argument returns nil bytes and a nil error; of
\* an odd number of arguments it encodes the last key with a nil value; when
\* every pair encodes it returns the pairs' key=value in the order of the
\* arguments, one space between two and no newline at the end; when a pair
\* fails it returns that pair's error and nil bytes.
C30_MarshalKeyvals ==
    (fin.fn = "MarshalKeyvals" /\ fres.done) =>
        LET ps == PairsOf(fin.args)
            bad == {i \in 1..Len(ps) : ~PairEncodes(ps[i])}
        IN  /\ ~fres.panic
            /\ Len(fin.args) = 0 => (fres.b = Nil /\ fres.err = ErrNil)
            /\ (Len(fin.args) > 0 /\ bad = {}) =>
                  /\ fres.err = ErrNil
                  /\ fres.b = Bytes(JoinPairs(ps))
                  /\ fres.b.b[Len(fres.b.b)] # LF
            /\ bad # {} =>
                  /\ fres.b = Nil
                  /\ fres.err = EncodeKeyval(NewEncoder, NewBuffer,
                                             ps[CHOOSE i \in bad : \A j \in bad : i <= j][1],
                                             ps[CHOOSE i \in bad : \A j \in bad : i <= j][2]).err
            /\ fin.args = <<Str(<<107>>)>> =>
                  fres.b = Bytes(PairText(Str(<<107>>), NilIface))

\* Three arguments k, v, k gave two pairs, the second with a nil value.
C30_Witness ==
    /\ fin.fn = "MarshalKeyvals" /\ fres.done
    /\ fin.args = <<Str(<<107>>), Str(<<118>>), Str(<<107>>)>>
    /\ fres.err = ErrNil
    /\ fres.b = Bytes(<<107, EQ, 118, SP>> \o PairText(Str(<<107>>), NilIface))

\* The second pair of k, v, nil, v failed: the error is ErrNilKey and no
\* bytes are returned.
C30_WitnessFailure ==
    /\ fin.fn = "MarshalKeyvals" /\ fres.done
    /\ fin.args = <<Str(<<107>>), Str(<<118>>), NilIface, Str(<<118>>)>>
    /\ fres.err = ErrNilKey /\ fres.b = Nil

\* The arguments are one pair: the key k and the string t.
OnePairOf(t) == fin.args = <<Str(<<107>>), Str(t)>>
\* The pair was written with its value between quotes.
WroteQuoted == ~fres.b.isNil /\ Len(fres.b.b) >= 4 /\ fres.b.b[3] = QUOTE

ValidText(t) ==
    \A i \in 1..Len(t) :
        \/ RuneLen(t, i) > 0
        \/ IsCont(t, i) /\ \E j \in 1..3 : i - j >= 1 /\ RuneLen(t, i - j) > j

PlainText(t) == ValidText(t) /\ \A i \in 1..Len(t) : t[i] >= SP /\ t[i] # 127
\* The arguments are pairs of a key and nil or a plain text.
PlainPairs(a) ==
    /\ Len(a) > 0
    /\ \A i \in 1..Len(a) :
          i % 2 = 0 => a[i] = NilIface \/ (IsTextValue(a[i]) /\ PlainText(ValueTextOf(a[i])))
\* The pairs read back for the arguments a when a nil value is read as the
\* text asNil and every other value as its text.
RECURSIVE ReadBack(_, _)
ReadBack(a, asNil) ==
    IF Len(a) = 0 THEN <<>>
    ELSE <<KV(KeyTextOf(a[1]),
              IF a[2] = NilIface THEN Bytes(asNil) ELSE Bytes(ValueTextOf(a[2])))>>
         \o ReadBack(SubSeq(a, 3, Len(a)), asNil)

\* C26: pairs with valid keys and values that are nil or texts without
\* control characters, written with EncodeKeyval and then decoded, give one
\* record with the same keys and values in the same order, a nil value
\* being read as the text nil.
C26_EncodeDecodeRoundTrip ==
    (fin.fn = "encode" /\ fres.done /\ PlainPairs(fin.args)) =>
        /\ fres.err = ErrNil /\ fres.derr = NoErr /\ ~fres.panic
        /\ fres.recs = <<ReadBack(fin.args, TextNil)>>

\* The text of a value written in quotes only when it needs them.
QuotedIfNeeded(t) ==
    IF \E i \in 1..Len(t) : needsQuotedValueRune(t[i])
    THEN <<QUOTE>> \o escapeFrom(t, 1, <<>>) \o <<QUOTE>>
    ELSE t
\* One record written back: key=value of each pair, an absent value as key=,
\* one space between two pairs, a newline at the end.
RECURSIVE ReencodedRecord(_)
ReencodedRecord(rec) ==
    IF Len(rec) = 0 THEN newline
    ELSE rec[1].k \o equals \o (IF rec[1].v.isNil THEN <<>> ELSE QuotedIfNeeded(rec[1].v.b))
         \o (IF Len(rec) = 1 THEN <<>> ELSE space) \o ReencodedRecord(Tail(rec))
RECURSIVE Reencoded(_)
Reencoded(recs) ==
    IF Len(recs) = 0 THEN <<>> ELSE ReencodedRecord(recs[1]) \o Reencoded(Tail(recs))
\* a=1 b=bar d= x=sf LF
TextReencoded ==
    <<97, 61, 49, 32, 98, 61, 98, 97, 114, 32, 100, 61, 32, 120, 61, 115, 102, LF>>

\* C27: when a text decodes without fault, EncodeKeyval accepts every key and
\* value the decoder gave, and writing the records back with an EndRecord
\* after each gives one line per line of the text: values in quotes only
\* where needed, one space between pairs, key= for an absent value, an empty
\* line for a blank line; a=1 b="bar" d x=sf followed by three spaces gives
\* a=1 b=bar d= x=sf and a newline.
C27_DecodeEncode ==
    (fin.fn = "decode" /\ fres.done /\ fres.derr = NoErr /\ ~fres.panic) =>
        /\ fres.err = ErrNil
        /\ Len(fres.recs) = NumLines(fin.text)
        /\ fres.b = Bytes(Reencoded(fres.recs))
        /\ fin.text = TextReencode => fres.b = Bytes(TextReencoded)

\* C31: a pointer that is not nil is written as the text of the value it
\* points to: a pointer to the integer 1 gives k=1 as a value and 1=v as a key.
C31_PointerIsDereferenced ==
    (Encoded /\ eret.failAt = 0) =>
        /\ (eret.key = Str(<<107>>) /\ eret.value = Ptr(<<49>>)) =>
              /\ eret.err = ErrNil /\ ~epanicked
              /\ EndsWith(out, <<107, EQ, 49>>)
        /\ (eret.key = Ptr(<<49>>) /\ eret.value = Str(<<118>>)) =>
              /\ eret.err = ErrNil /\ ~epanicked
              /\ EndsWith(out, <<49, EQ, 118>>)

\* The last call returned the span start..end of the line as a token.
ReturnedSpan ==
    \/ ret.op = "ScanKey" /\ ret.tt \in tokKey
    \/ ret.op = "ScanValue" /\ ret.tt \in tokValueOrQuoted

\* C32: whatever the input and the order of the NextRecord, ScanKey and
\* ScanValue calls, no call indexes the line outside 0..len(line)-1 (no
\* panic), the position stays within 0..len(line), and every token returned
\* is a span with 0 <= start <= end <= len(line).
C32_NoIndexOutOfRange ==
    /\ ~panicked
    /\ 0 <= dec.pos /\ dec.pos <= Len(dec.line)
    /\ ReturnedSpan => (0 <= dec.start /\ dec.start <= dec.end /\ dec.end <= Len(dec.line))

\* Calls were made out of the order of the read loop, and a ScanValue then
\* returned a value whose span ends at the last byte of the line.
C32_Witness ==
    /\ ret.op = "ScanValue" /\ ret.ok /\ dec.end = Len(dec.line) /\ dec.pos = Len(dec.line)
    /\ ~panicked /\ ~clean


\* The read loop collected one pair, of key a, from the line l.
LineRead(l) == clean /\ dec.line = l /\ Len(kvs) = 1 /\ kvs[1].k = <<97>>

\* C33: an empty value is told from no value: the line a="" is read as a
\* present value of no bytes, and the lines a, a= and "a= " as no value (nil).
C33_EmptyIsNotAbsent ==
    /\ LineRead(<<97, EQ, QUOTE, QUOTE>>) => kvs[1].v = Bytes(<<>>)
    /\ LineRead(<<97>>) => kvs[1].v = Nil
    /\ LineRead(<<97, EQ>>) => kvs[1].v = Nil
    /\ LineRead(<<97, EQ, SP>>) => kvs[1].v = Nil


\* C34: the separator flag is set exactly when a pair has been written since
\* the start of the current record (construction, the last EndRecord that
\* succeeded, the last Reset); an EncodeKeyval that fails before any pair was
\* written leaves it clear, and the output does not start with a space.
C34_SepIffPairWritten ==
    ~epanicked =>
        /\ enc.needSep <=> (npairs > 0)
        /\ out # <<>> => out[1] # SP


\* A decoder that has read nothing of its record n, the line l.
NewOnLine(l, n) ==
    [line |-> l, lineNum |-> n, pos |-> 0, start |-> 0, end |-> 0,
     state |-> IF Len(l) > 0 THEN "garbage" ELSE "eol", err |-> NoErr]

\* C35: a NextRecord that returns true, whatever the lexer was doing on the
\* previous line, leaves the lexer at column 1 of the new line, skipping
\* separators, with no error; the ScanKey that follows returns the first key of
\* the new line, as it would on a decoder that had read nothing of any line.
C35_NextRecordResetsLexer ==
    [][/\ (ret'.op = "NextRecord" /\ ret'.ok) =>
             /\ dec'.pos = 0 /\ dec'.err = NoErr
             /\ dec'.state = IF Len(dec'.line) > 0 THEN "garbage" ELSE "eol"
       /\ (ret.op = "NextRecord" /\ ret.ok /\ ret'.op = "ScanKey") =>
             /\ ret'.val = ScanKey(NewOnLine(dec.line, dec.lineNum)).val
             /\ dec'.err = ScanKey(NewOnLine(dec.line, dec.lineNum)).d.err
             /\ dec'.pos = ScanKey(NewOnLine(dec.line, dec.lineNum)).d.pos]_vars

\* NextRecord returned true for the second line of "y=f LF y=g" after only the
\* key of the first line had been read (the span 0..1 is that key's).
C35_Witness ==
    /\ sc.fix = 12 /\ nrec = 2 /\ ret.op = "NextRecord" /\ ret.ok
    /\ dec.start = 0 /\ dec.end = 1
    /\ dec.line = <<121, 61, 103>> /\ dec.pos = 0 /\ dec.state = "garbage"


\* C36: the line number grows by one on each NextRecord that returns true and
\* is left alone by every other call; such a NextRecord puts the position at
\* column 1 (pos = 0), and no other call moves the position backwards.
C36_LineAndColumn ==
    [][IF ret'.op = "NextRecord" /\ ret'.ok
       THEN dec'.lineNum = dec.lineNum + 1 /\ dec'.pos = 0
       ELSE dec'.lineNum = dec.lineNum /\ dec'.pos >= dec.pos]_vars

\* The value that ends the second record has been read.
C36_Witness ==
    /\ dec.lineNum = 2 /\ nrec = 2 /\ ret.op = "ScanValue" /\ ret.ok
    /\ dec.pos = Len(dec.line) /\ dec.pos > 2


\* C37: in the read loop of a record every ScanKey and ScanValue returns, each
\* ScanKey that returns a key has moved the position forward, a ScanKey that
\* returns no key has set Err, and Err is set after finitely many calls: the
\* loop makes one pair of calls for each key of the line and one more.
C37_ReadLoopEnds ==
    /\ [][(ret'.op = "ScanKey" /\ ~ret'.val.isNil) => dec'.pos > dec.pos]_vars
    /\ []((loop = "value" /\ curKey.isNil) => dec.err # NoErr)
    /\ [](Len(kvs) <= Len(dec.line) /\ ~panicked)
    /\ (loop = "key") ~> (loop \in {"done", "off"} /\ dec.err # NoErr)

\* The read loop of a line of two keys has ended, at its third ScanValue.
C37_Witness ==
    /\ loop = "done" /\ clean /\ Len(kvs) = 2 /\ dec.err = EndOfRecord
    /\ ret.op = "ScanValue" /\ ret.val.isNil /\ sc.fix <= 0


\* The last call left a key to be read next: a record was opened or a value read.
KeyPending == (ret.op = "NextRecord" /\ ret.ok) \/ ret.op = "ScanValue"
\* The last call returned a key: its value is to be read next.
ValuePending == ret.op = "ScanKey" /\ ret.ok

\* A ScanKey made while a value is pending does what ScanValue then ScanKey
\* do, but for the unquoting of the value it passes over.
SkipsValue ==
    (ValuePending /\ ret'.op = "ScanKey") =>
        LET v == ScanValue(dec) IN
        v.d.err # ErrInvalidQuotedValue =>
            /\ ret'.val = ScanKey(v.d).val
            /\ dec' = ScanKey(v.d).d

\* A ScanValue made while a key is pending does what ScanKey then ScanValue do.
SkipsKey ==
    (KeyPending /\ ret'.op = "ScanValue") =>
        /\ ret'.val = ScanValue(ScanKey(dec).d).val
        /\ dec' = ScanValue(ScanKey(dec).d).d

\* On a line of the grammar, what ScanKey returned is one of the line's keys
\* and what ScanValue returned is one of its values.
ReturnsOwnKind ==
    LET g == LenientKeyvals(dec'.line) IN
    (g.ok /\ ret'.ok) =>
        /\ ret'.op = "ScanKey" => \E i \in 1..Len(g.kvs) : g.kvs[i].k = ret'.val.b
        /\ ret'.op = "ScanValue" =>
              \E i \in 1..Len(g.kvs) : ~g.kvs[i].absent /\ g.kvs[i].b = ret'.val.b

\* C38: ScanKey and ScanValue need not alternate.  A ScanKey made while a value
\* is pending passes over the value and returns the next key, a ScanValue made
\* while a key is pending passes over the key and returns its value (nil when
\* it has none), neither sets an error the alternating calls would not set,
\* and ScanKey returns only bytes of a key, ScanValue only bytes of a value.
C38_NeedNotAlternate == [][SkipsValue /\ SkipsKey /\ ReturnsOwnKind]_vars


\* The writes EncodeKeyval makes for the pair k, v, in order, when the
\* separator flag is sep and the sink accepts them all.
PairWrites(sep, k, v) ==
    (IF sep THEN <<space>> ELSE <<>>)
        \o <<writeKey(NewBuffer, k).w.buf, equals, writeValue(NewBuffer, v).w.buf>>

RECURSIVE Concat(_, _)
\* The first n of the byte strings ws, joined.
Concat(ws, n) == IF n = 0 THEN <<>> ELSE Concat(ws, n - 1) \o ws[n]

\* C39: when the sink rejects a write, EncodeKeyval and EndRecord return the
\* sink's error and the sink has gained only the writes made before the
\* rejected one; an EndRecord that fails leaves the separator flag as it was;
\* Reset clears the flag and writes nothing.
C39_SinkFailure ==
    [][/\ (eret'.op = "EncodeKeyval" /\ eret'.err = ErrSink) =>
             /\ eret'.failAt \in 1..Len(PairWrites(enc.needSep, eret'.key, eret'.value))
             /\ out' = out \o Concat(PairWrites(enc.needSep, eret'.key, eret'.value),
                                     eret'.failAt - 1)
       /\ (eret'.op = "EncodeKeyval" /\ eret'.err = ErrNil /\ ~epanicked') =>
             out' = out \o Concat(PairWrites(enc.needSep, eret'.key, eret'.value),
                                  Len(PairWrites(enc.needSep, eret'.key, eret'.value)))
       /\ (eret'.op = "EndRecord" /\ eret'.failAt = 1) =>
             (eret'.err = ErrSink /\ out' = out /\ enc' = enc)
       /\ (eret'.op = "EndRecord" /\ eret'.failAt = 0) =>
             (eret'.err = ErrNil /\ out' = out \o newline)
       /\ eret'.op = "Reset" => (out' = out /\ ~enc'.needSep)]_vars

\* The sink rejected the newline of an EndRecord made after the pair k1=v1.
C39_Witness ==
    /\ eret.op = "EndRecord" /\ eret.err = ErrSink /\ eret.failAt = 1
    /\ enc.needSep /\ out = TextK1V1 /\ npairs = 1

=============================================================================
